---- MODULE Spec2Model ----
(***************************************************************************)
(* Wallet state engine of the Octra browser wallet.                        *)
(*                                                                         *)
(*   - NonceCoordinator : utils/nonceManager (getNextNonce, releaseNonce,  *)
(*                        clearNonceState, clearAllNonceStates) driven by  *)
(*                        the send form and by App lock / logout           *)
(*   - LedgerReconciler : utils/txStorage (loadTransactions,               *)
(*                        saveTransactions, upsertTransaction,             *)
(*                        updateTransactionStatus, mergeTransactions)      *)
(*                        driven by WalletView and TransactionsTab         *)
(*                                                                         *)
(* JavaScript runs every callback to its next await without interleaving,  *)
(* so one action is one such run; an await splits a function in two.       *)
(***************************************************************************)
EXTENDS Integers, Sequences, FiniteSets, TLC

(***************************************************************************)
(* Bounds of the model                                                     *)
(***************************************************************************)
\* number of getNextNonce invocations followed in one run
MaxTasks == 3
\* the remote ledger answers fetchNonce with a value in 0..MaxRemote
MaxRemote == 1
\* mergeTransactions is applied to at most MaxStored stored and MaxApi API transactions
MaxStored == 2
MaxApi == 2
\* timestamps range over 1..MaxTs
MaxTs == 2
\* refreshes of one view that may await the remote history at the same time
MaxInFlight == 1

Addrs == {"oct1", "oct2"}
NoAddr == "none"
Tasks == 1..MaxTasks
\* no entry in the nonceStates Map
NoObj == 0
\* pendingNonce: null
Null == -2

Max(x, y) == IF x >= y THEN x ELSE y

VARIABLES
  vault,        \* address of the EncryptedVault record in localStorage, or NoAddr
  wallet,       \* App state `wallet`: address of the unlocked wallet, or NoAddr
  nonceStates,  \* the module-level Map address -> NonceState object (by reference)
  heap,         \* the NonceState objects; object t is the one invocation t allocated
  task,         \* the getNextNonce invocations and what their callers hold
  reserveSince, \* history: a reserve was called for the address since its last clear
  lastCommit,   \* history: the nonce last released with committed=true since the last clear
  mStored,      \* a txStorage function called: the list loadTransactions gives it
  mApi,         \* a function of utils called: its arguments (apiTransactions; tx; hash, status, epoch; key; ...)
  mNow,         \* a txStorage function called: Date.now() / 1000 during the call
  mResult,      \* a function of utils called: what it returns
  mDone,        \* a function of utils called: it has returned
  clock,        \* Date.now() / 1000
  cache,        \* localStorage octra_tx_<address> of the unlocked wallet
  remoteTx,     \* the remote ledger: per hash whether it is unknown, pending or confirmed
  route,        \* the mounted view: "home" (WalletView) or "txs" (TransactionsTab)
  sending,      \* handleSend awaiting sendTx: the transaction, or NoTx
  wvFetches,    \* WalletView.fetchTransactions awaiting getTransactions: their `stored`
  ttFetches,    \* TransactionsTab.fetchAndMergeTransactions awaiting getTransactions
  displayed,    \* the list the mounted view shows: TransactionsTab `transactions`, WalletView `recentTxs`
  timers,       \* pollingRef: hashes with a scheduled pollStatus timer
  checks,       \* hashes whose pollStatus awaits getTransactionStatus
  everConfirmed, \* history: hashes the persisted cache has held as confirmed
  seenConfirmed, \* history: hashes the mounted transactions view has shown as confirmed
  hs,           \* WalletView.handleSend and its recursive retries for one send of the user
  chains,       \* the pollStatus chains: a scheduled timer or a check awaiting its answer
  pollingRef,   \* pollingRef.current: per hash the chain whose timer handle it holds
  interval,     \* the 15 s refresh interval of TransactionsTab: its next due time, or Null
  pollCalls,    \* history: getTransactionStatus calls per hash since the view mounted
  session,      \* sessionStorage octra_wallet_session of this tab: [address, expiry], or NoSession
  decrypted,    \* sessionStorage octra_wallet_decrypted_<address>: the addr of the cached wallet, or NoAddr
  dateNow,      \* Date.now(), in the time unit of the unlock session
  showUnlock,   \* App state `showUnlock`
  otherCaches   \* the addresses other than LedgerAddr with an octra_tx_<address> item in localStorage

nonceVars == <<vault, wallet, nonceStates, heap, task, reserveSince, lastCommit>>
mergeVars == <<mStored, mApi, mNow, mResult, mDone>>
ledgerVars == <<clock, cache, remoteTx, route, sending, wvFetches, ttFetches, displayed,
                timers, checks, everConfirmed, seenConfirmed>>
sendVars == <<hs>>
pollVars == <<chains, pollingRef, interval, pollCalls>>
sessionVars == <<session, decrypted, dateNow, showUnlock, otherCaches>>
vars == <<nonceVars, mergeVars, ledgerVars, sendVars, pollVars, sessionVars>>
\* what an action of one component leaves alone
notNonce == <<mergeVars, ledgerVars, sendVars, pollVars, sessionVars>>
notMerge == <<nonceVars, ledgerVars, sendVars, pollVars, sessionVars>>
notLedger == <<nonceVars, mergeVars, sendVars, pollVars, sessionVars>>
\* what a handler of App leaves alone besides the nonce states and the session
notApp == <<mergeVars, ledgerVars, sendVars, pollVars>>

(***************************************************************************)
(* NonceCoordinator (src/components/PassphrasePrompt.tsx 130-225)          *)
(***************************************************************************)
\* the object literal of getNextNonce, used when the Map has no entry
FreshNonceState == [currentNonce |-> -1, pendingNonce |-> Null, locked |-> FALSE]

IdleTask == [pc |-> "idle", addr |-> NoAddr, obj |-> NoObj, nonce |-> Null, stale |-> "no"]

\* an invocation that has returned keeps only its outcome
Finished(outcome) == [IdleTask EXCEPT !.pc = outcome]

\* objects that neither the Map nor a suspended getNextNonce refers to are garbage
Collect(h, ns, tk) ==
  [o \in Tasks |->
     IF (\E a \in Addrs : ns[a] = o) \/ (\E t \in Tasks : tk[t].pc = "fetching" /\ tk[t].obj = o)
     THEN h[o] ELSE FreshNonceState]

\* const baseNonce = Math.max(networkNonce, state.currentNonce)
BaseNonce(networkNonce, currentNonce) == Max(networkNonce, currentNonce)

\* the try-branch of getNextNonce after the await: state.locked is not touched
ReservedState(st, networkNonce) ==
  [currentNonce |-> BaseNonce(networkNonce, st.currentNonce),
   pendingNonce |-> BaseNonce(networkNonce, st.currentNonce) + 1,
   locked |-> st.locked]

\* the catch-branch of getNextNonce
UnlockedState(st) ==
  [currentNonce |-> st.currentNonce, pendingNonce |-> Null, locked |-> FALSE]

\* releaseNonce without the `success &&` test: a failed send commits its nonce too
ReleasedStateAlwaysCommit(st, success) ==
  [currentNonce |-> IF st.pendingNonce # Null THEN st.pendingNonce ELSE st.currentNonce,
   pendingNonce |-> Null,
   locked |-> FALSE]

\* releaseNonce on an existing state
ReleasedState(st, success) ==
  [currentNonce |-> IF success /\ st.pendingNonce # Null
                    THEN st.pendingNonce ELSE st.currentNonce,
   pendingNonce |-> Null,
   locked |-> FALSE]

\* a task whose reservation (or fetch) is under way when the address is cleared
MarkStale(tk, addrs) ==
  [t \in Tasks |->
     IF tk[t].addr \in addrs /\ tk[t].pc \in {"fetching", "granted"} /\ tk[t].stale = "no"
     THEN [tk[t] EXCEPT !.stale = tk[t].pc]
     ELSE tk[t]]

\* getNextNonce up to its await: the caller is the send form of the unlocked wallet
GetNextNonceCall(t) ==
  /\ wallet # NoAddr
  /\ task[t].pc = "idle"
  /\ t > 1 => task[t - 1].pc # "idle"
  /\ LET a == wallet
         o == IF nonceStates[a] # NoObj THEN nonceStates[a] ELSE t
     IN  IF heap[o].locked
         THEN /\ task' = [task EXCEPT ![t] = Finished("done")]
              /\ UNCHANGED <<nonceStates, heap>>
         ELSE /\ heap' = [heap EXCEPT ![o].locked = TRUE]
              /\ nonceStates' = [nonceStates EXCEPT ![a] = o]
              /\ task' = [task EXCEPT ![t] = [@ EXCEPT !.pc = "fetching", !.addr = a, !.obj = o]]
  /\ reserveSince' = [reserveSince EXCEPT ![wallet] = TRUE]
  /\ UNCHANGED <<vault, wallet, lastCommit>>
  /\ UNCHANGED notNonce

\* getNextNonce after its await, fetchCurrentNonce resolved with networkNonce
GetNextNonceResolve(t, networkNonce) ==
  /\ task[t].pc = "fetching"
  /\ LET o == task[t].obj
         st == ReservedState(heap[o], networkNonce)
     IN  /\ nonceStates' = [nonceStates EXCEPT ![task[t].addr] = o]
         /\ task' = [task EXCEPT ![t] = [@ EXCEPT !.pc = "granted",
                                          !.nonce = st.pendingNonce]]
         /\ heap' = Collect([heap EXCEPT ![o] = st], nonceStates', task')
  /\ UNCHANGED <<vault, wallet, reserveSince, lastCommit>>
  /\ UNCHANGED notNonce

\* getNextNonce after its await, fetchCurrentNonce rejected
GetNextNonceReject(t) ==
  /\ task[t].pc = "fetching"
  /\ LET o == task[t].obj
     IN  /\ nonceStates' = [nonceStates EXCEPT ![task[t].addr] = o]
         /\ task' = [task EXCEPT ![t] = Finished("done")]
         /\ heap' = Collect([heap EXCEPT ![o] = UnlockedState(heap[o])], nonceStates', task')
  /\ UNCHANGED <<vault, wallet, reserveSince, lastCommit>>
  /\ UNCHANGED notNonce

\* releaseNonce, called by handleSend when the send of a granted nonce
\* has succeeded (true) or failed (false)
ReleaseNonce(t, success) ==
  /\ task[t].pc = "granted"
  /\ LET a == task[t].addr
         o == nonceStates[a]
     IN  /\ IF o = NoObj
            THEN UNCHANGED heap
            ELSE heap' = [heap EXCEPT ![o] = ReleasedState(heap[o], success)]
         /\ lastCommit' = IF success /\ task[t].stale = "no"
                         THEN [lastCommit EXCEPT ![a] = task[t].nonce]
                         ELSE lastCommit
  /\ task' = [task EXCEPT ![t] = Finished("done")]
  /\ UNCHANGED <<vault, wallet, nonceStates, reserveSince>>
  /\ UNCHANGED notNonce

(***************************************************************************)
(* UnlockSession and DecryptedKeyCache (src/unnamed/part_008 117-336) and  *)
(* the handlers of App (src/App.tsx 49-135)                                *)
(***************************************************************************)
\* no octra_wallet_session item in sessionStorage
NoSession == [address |-> NoAddr, expiry |-> 0]

\* SESSION_DURATION_MS, in the time unit of the model (half an hour)
SessionDuration == 2

\* isWalletEncrypted: the octra_wallet item exists with ciphertext, salt and iv
IsWalletEncrypted(v) == v # NoAddr

\* isSessionValid: the value it returns
IsSessionValid(s, v, t) ==
  IF s = NoSession THEN FALSE
  ELSE IF t > s.expiry THEN FALSE
  ELSE IF ~IsWalletEncrypted(v) THEN FALSE
  ELSE TRUE

\* isSessionValid: the session item it leaves (removed when expired or when
\* no encrypted wallet is stored)
CheckedSession(s, v, t) ==
  IF s = NoSession THEN s
  ELSE IF t > s.expiry THEN NoSession
  ELSE IF ~IsWalletEncrypted(v) THEN NoSession
  ELSE s

\* createUnlockSession(walletAddress)
CreateUnlockSession(walletAddress, t) ==
  [address |-> walletAddress, expiry |-> t + SessionDuration]

\* cacheDecryptedWallet(wallet)
CacheDecryptedWallet(d, addr) == [d EXCEPT ![addr] = addr]

\* clearDecryptedWalletCache that removes nothing
ClearDecryptedWalletCacheNone(d, address) == d

\* clearDecryptedWalletCache(address)
ClearDecryptedWalletCache(d, address) == [d EXCEPT ![address] = NoAddr]

\* tryAutoUnlock without the expiry checks
TryAutoUnlockExpired(s, d, v, t) ==
  IF s = NoSession \/ ~IsWalletEncrypted(v) THEN NoAddr
  ELSE IF d[s.address] # NoAddr /\ d[s.address] = s.address THEN d[s.address]
  ELSE NoAddr

\* tryAutoUnlock: the address of the wallet it returns, NoAddr for null
TryAutoUnlock(s, d, v, t) ==
  IF ~IsSessionValid(s, v, t) THEN NoAddr
  ELSE IF t > s.expiry THEN NoAddr
  ELSE IF d[s.address] # NoAddr /\ d[s.address] = s.address THEN d[s.address]
  ELSE NoAddr

\* the nonce states, which live in the memory of the page, after a reload
ReloadedNonces ==
  /\ nonceStates' = [a \in Addrs |-> NoObj]
  /\ reserveSince' = [a \in Addrs |-> FALSE]
  /\ lastCommit' = [a \in Addrs |-> Null]
  /\ task' = [t \in Tasks |-> IdleTask]
  /\ heap' = [t \in Tasks |-> FreshNonceState]

\* WalletImport -> App.handleWalletImport: saveEncryptedWallet, then
\* cacheDecryptedWallet and createUnlockSession
HandleWalletImport(a) ==
  /\ wallet = NoAddr
  /\ ~showUnlock
  /\ vault' = a
  /\ wallet' = a
  /\ decrypted' = CacheDecryptedWallet(decrypted, a)
  /\ session' = CreateUnlockSession(a, dateNow)
  /\ showUnlock' = FALSE
  /\ UNCHANGED <<nonceStates, heap, task, reserveSince, lastCommit, dateNow, otherCaches>>
  /\ UNCHANGED notApp

\* App.handleUnlock with the right passphrase
HandleUnlock ==
  /\ wallet = NoAddr
  /\ showUnlock
  /\ vault # NoAddr
  /\ wallet' = vault
  /\ decrypted' = CacheDecryptedWallet(decrypted, vault)
  /\ session' = CreateUnlockSession(vault, dateNow)
  /\ showUnlock' = FALSE
  /\ UNCHANGED <<vault, nonceStates, heap, task, reserveSince, lastCommit, dateNow, otherCaches>>
  /\ UNCHANGED notApp

\* App.handleLock: clearNonceState(wallet.addr), clearDecryptedWalletCache(wallet.addr),
\* clearUnlockSession()
HandleLock ==
  /\ wallet # NoAddr
  /\ nonceStates' = [nonceStates EXCEPT ![wallet] = NoObj]
  /\ reserveSince' = [reserveSince EXCEPT ![wallet] = FALSE]
  /\ lastCommit' = [lastCommit EXCEPT ![wallet] = Null]
  /\ task' = MarkStale(task, {wallet})
  /\ heap' = Collect(heap, nonceStates', task')
  /\ decrypted' = ClearDecryptedWalletCache(decrypted, wallet)
  /\ session' = NoSession
  /\ wallet' = NoAddr
  /\ showUnlock' = TRUE
  /\ UNCHANGED <<vault, dateNow, otherCaches>>
  /\ UNCHANGED notApp

\* the page is loaded again in this tab: the state of App and the nonce
\* states are lost, sessionStorage and localStorage are kept, and the mount
\* effect of App runs
Reload ==
  /\ ReloadedNonces
  /\ IF ~IsWalletEncrypted(vault)
     THEN /\ wallet' = NoAddr
          /\ showUnlock' = FALSE
          /\ UNCHANGED session
     ELSE /\ session' = CheckedSession(session, vault, dateNow)
          /\ IF IsSessionValid(session, vault, dateNow)
             THEN /\ wallet' = TryAutoUnlock(session, decrypted, vault, dateNow)
                  /\ showUnlock' = (wallet' = NoAddr)
             ELSE /\ wallet' = NoAddr
                  /\ showUnlock' = TRUE
  /\ UNCHANGED <<vault, decrypted, dateNow, otherCaches>>
  /\ UNCHANGED notApp

\* time passes
MaxNow == 4
SessionTick ==
  /\ dateNow < MaxNow
  /\ dateNow' = dateNow + 1
  /\ UNCHANGED <<session, decrypted, showUnlock, otherCaches>>
  /\ UNCHANGED <<nonceVars, notApp>>

(***************************************************************************)
(* LedgerReconciler: utils/txStorage (src/unnamed/part_007 1-216)          *)
(*                                                                         *)
(* A StoredTransaction is a record                                         *)
(*   [hash, timestamp, status, priority, createdAt, lastCheckedAt, epoch]  *)
(* in which a missing (undefined) field is "none" for status and priority, *)
(* 0 for createdAt / lastCheckedAt / timestamp and Null for epoch.  A      *)
(* TransactionHistory entry of the remote is [hash, timestamp, epoch,      *)
(* priority, nonce].  from / to / amount are carried along unchanged by    *)
(* every operation and are left out.  A JavaScript Map is a sequence of    *)
(* records with distinct hashes in insertion order.                        *)
(***************************************************************************)
\* .slice(0, 50)
CacheCap == 50

Min(x, y) == IF x <= y THEN x ELSE y

\* String.prototype.toLowerCase on the priority strings of the model
ToLowerCase(p) == IF p = "EXPRESS" THEN "express" ELSE p

\* normalizePriority: (!priority) -> normal; lower-case express -> express; else normal
NormalizePriority(p) ==
  IF p = "none" THEN "normal"
  ELSE IF ToLowerCase(p) = "express" THEN "express" ELSE "normal"

\* a function on 1..n as the tuple of its values
Tuple(f) == f \o <<>>

HasHash(m, h) == \E i \in DOMAIN m : m[i].hash = h

\* Array.prototype.findIndex(t => t.hash === h), for a hash that is present
FindIndex(m, h) == CHOOSE i \in DOMAIN m : m[i].hash = h /\ \A j \in 1..(i - 1) : m[j].hash # h

\* Map.prototype.get
MapGet(m, h) == m[FindIndex(m, h)]

\* new Map() filled by entries.forEach(e => map.set(e.hash, e)): a key keeps
\* the position of its first entry and the value of its last
MapOf(entries) ==
  LET n == Len(entries)
      first == Tuple([i \in 1..n |-> \A j \in 1..(i - 1) : entries[j].hash # entries[i].hash])
      last == Tuple([i \in 1..n |-> \A j \in (i + 1)..n : entries[j].hash # entries[i].hash])
      rank == Tuple([i \in 1..n |-> Cardinality({j \in 1..i : first[j]})])
      key(k) == entries[CHOOSE i \in 1..n : first[i] /\ rank[i] = k].hash
  IN  [k \in 1..(IF n = 0 THEN 0 ELSE rank[n]) |->
         entries[CHOOSE j \in 1..n : last[j] /\ entries[j].hash = key(k)]]

\* Array.prototype.sort((a, b) => (b.timestamp || 0) - (a.timestamp || 0)), which
\* is stable: an element goes behind the newer ones and the equally old ones
\* that stood before it
SortDesc(txs) ==
  LET before(i) == {j \in DOMAIN txs :
                      \/ txs[j].timestamp > txs[i].timestamp
                      \/ txs[j].timestamp = txs[i].timestamp /\ j < i}
      rank == Tuple([i \in DOMAIN txs |-> Cardinality(before(i)) + 1])
  IN  [p \in DOMAIN txs |-> txs[CHOOSE i \in DOMAIN txs : rank[i] = p]]

\* .slice(-n): the last n entries instead of the first
SliceLast(txs, n) == SubSeq(txs, Len(txs) - Min(n, Len(txs)) + 1, Len(txs))

\* .slice(0, n)
Slice(txs, n) == SubSeq(txs, 1, Min(n, Len(txs)))

\* saveTransactions: an empty list never overwrites a non-empty cache
SaveTransactions(existing, txs) ==
  IF Len(txs) = 0 /\ Len(existing) > 0 THEN existing ELSE txs

\* { ...old, ...tx } for the keys a caller of upsertTransaction passes
Spread(old, tx) ==
  [hash |-> tx.hash,
   timestamp |-> tx.timestamp,
   status |-> IF tx.status = "none" THEN old.status ELSE tx.status,
   priority |-> tx.priority,
   createdAt |-> IF tx.createdAt = 0 THEN old.createdAt ELSE tx.createdAt,
   lastCheckedAt |-> IF tx.lastCheckedAt = 0 THEN old.lastCheckedAt ELSE tx.lastCheckedAt,
   epoch |-> IF tx.epoch = Null THEN old.epoch ELSE tx.epoch,
   nonce |-> tx.nonce]

\* upsertTransaction without the findIndex branch: tx is always put in front
UpsertTransactionUnshift(existing, tx, now) ==
  LET normalizedTx == [tx EXCEPT !.priority = NormalizePriority(tx.priority)]
  IN  Slice(SortDesc(<<[normalizedTx EXCEPT
                          !.createdAt = IF normalizedTx.createdAt # 0 THEN normalizedTx.createdAt
                                        ELSE now,
                          !.lastCheckedAt = now]>> \o existing), CacheCap)

\* upsertTransaction: the list it saves and returns
UpsertTransaction(existing, tx, now) ==
  LET normalizedTx == [tx EXCEPT !.priority = NormalizePriority(tx.priority)]
      updated ==
        IF HasHash(existing, normalizedTx.hash)
        THEN LET index == FindIndex(existing, normalizedTx.hash)
                 old == existing[index]
             IN  [existing EXCEPT ![index] =
                    [Spread(old, normalizedTx) EXCEPT
                       !.priority = normalizedTx.priority,
                       !.createdAt = IF old.createdAt # 0 THEN old.createdAt
                                     ELSE IF normalizedTx.createdAt # 0 THEN normalizedTx.createdAt
                                     ELSE now,
                       !.lastCheckedAt = now]]
        ELSE <<[normalizedTx EXCEPT
                  !.createdAt = IF normalizedTx.createdAt # 0 THEN normalizedTx.createdAt ELSE now,
                  !.lastCheckedAt = now]>> \o existing
  IN  Slice(SortDesc(updated), CacheCap)

\* updateTransactionStatus writing the epoch argument even when it is omitted
UpdateTransactionStatusEpoch(existing, txHash, status, epoch, now) ==
  [i \in DOMAIN existing |->
     IF existing[i].hash = txHash
     THEN [existing[i] EXCEPT
             !.status = status,
             !.epoch = epoch,
             !.priority = IF @ = "none" THEN "normal" ELSE @,
             !.lastCheckedAt = now]
     ELSE existing[i]]

\* updateTransactionStatus: the list it saves and returns
UpdateTransactionStatus(existing, txHash, status, epoch, now) ==
  [i \in DOMAIN existing |->
     IF existing[i].hash = txHash
     THEN [existing[i] EXCEPT
             !.status = status,
             !.epoch = IF epoch # Null THEN epoch ELSE @,
             !.priority = IF @ = "none" THEN "normal" ELSE @,
             !.lastCheckedAt = now]
     ELSE existing[i]]

\* the entry mergeTransactions puts into apiTxMap for one API transaction
ApiRecord(tx, now) ==
  [hash |-> tx.hash, timestamp |-> tx.timestamp, status |-> "confirmed",
   priority |-> NormalizePriority(tx.priority), createdAt |-> 0,
   lastCheckedAt |-> now, epoch |-> tx.epoch, nonce |-> tx.nonce]

ApiTxMap(apiTransactions, now) ==
  MapOf([i \in DOMAIN apiTransactions |-> ApiRecord(apiTransactions[i], now)])

StoredTxMap(stored) == MapOf(stored)

\* mergeTransactions letting the status of a stored record win over the API's
MergedApiKeepStored(apiTx, storedTxMap) ==
  [apiTx EXCEPT
     !.priority = IF apiTx.priority # "none" THEN apiTx.priority
                  ELSE IF HasHash(storedTxMap, apiTx.hash)
                       THEN NormalizePriority(MapGet(storedTxMap, apiTx.hash).priority)
                       ELSE "normal",
     !.createdAt = IF HasHash(storedTxMap, apiTx.hash)
                      /\ MapGet(storedTxMap, apiTx.hash).createdAt # 0
                   THEN MapGet(storedTxMap, apiTx.hash).createdAt
                   ELSE apiTx.timestamp,
     !.status = IF HasHash(storedTxMap, apiTx.hash)
                   /\ MapGet(storedTxMap, apiTx.hash).status # "none"
                THEN MapGet(storedTxMap, apiTx.hash).status
                ELSE "confirmed"]

\* mergeTransactions taking createdAt from the wrong field of the stored record
MergedApiCreatedFromChecked(apiTx, storedTxMap) ==
  [apiTx EXCEPT
     !.priority = IF apiTx.priority # "none" THEN apiTx.priority
                  ELSE IF HasHash(storedTxMap, apiTx.hash)
                       THEN NormalizePriority(MapGet(storedTxMap, apiTx.hash).priority)
                       ELSE "normal",
     !.createdAt = IF HasHash(storedTxMap, apiTx.hash)
                      /\ MapGet(storedTxMap, apiTx.hash).lastCheckedAt # 0
                   THEN MapGet(storedTxMap, apiTx.hash).lastCheckedAt
                   ELSE apiTx.timestamp,
     !.status = "confirmed"]

\* the entry of mergedMap for an API transaction
MergedApi(apiTx, storedTxMap) ==
  [apiTx EXCEPT
     !.priority = IF apiTx.priority # "none" THEN apiTx.priority
                  ELSE IF HasHash(storedTxMap, apiTx.hash)
                       THEN NormalizePriority(MapGet(storedTxMap, apiTx.hash).priority)
                       ELSE "normal",
     !.createdAt = IF HasHash(storedTxMap, apiTx.hash)
                      /\ MapGet(storedTxMap, apiTx.hash).createdAt # 0
                   THEN MapGet(storedTxMap, apiTx.hash).createdAt
                   ELSE apiTx.timestamp,
     !.status = "confirmed"]

\* mergeTransactions without the `status === 'confirmed'` branch: a stored
\* transaction the API did not return is taken to be pending again
StoredOnlyDowngrade(storedTx, now) ==
  IF storedTx.status \in {"confirmed", "pending"}
  THEN <<[storedTx EXCEPT !.status = "pending"]>>
  ELSE IF storedTx.status = "failed" THEN <<storedTx>>
  ELSE <<>>

\* what mergeTransactions keeps of a stored transaction the API did not return
StoredOnly(storedTx, now) ==
  IF storedTx.status = "confirmed" THEN <<[storedTx EXCEPT !.lastCheckedAt = now]>>
  ELSE IF storedTx.status = "pending" THEN <<storedTx>>
  ELSE IF storedTx.status = "failed" THEN <<storedTx>>
  ELSE <<>>

\* stored.forEach(...) of mergeTransactions, over the first k stored
\* transactions: a stored transaction is added unless mergedMap has its hash,
\* from the API or from a stored transaction added before it
AddStored(mergedMap, stored, k, now) ==
  LET kept == Tuple([i \in 1..k |-> StoredOnly(stored[i], now) # <<>>])
      added == Tuple([i \in 1..k |->
                  /\ kept[i]
                  /\ ~HasHash(mergedMap, stored[i].hash)
                  /\ \A j \in 1..(i - 1) : stored[j].hash = stored[i].hash => ~kept[j]])
      rank == Tuple([i \in 1..k |-> Cardinality({j \in 1..i : added[j]})])
  IN  mergedMap \o [n \in 1..(IF k = 0 THEN 0 ELSE rank[k]) |->
                      StoredOnly(stored[CHOOSE i \in 1..k : added[i] /\ rank[i] = n], now)[1]]

\* mergeTransactions
MergeTransactions(stored, apiTransactions, now) ==
  LET apiTxMap == ApiTxMap(apiTransactions, now)
      storedTxMap == StoredTxMap(stored)
      fromApi == [i \in DOMAIN apiTxMap |-> MergedApi(apiTxMap[i], storedTxMap)]
      merged == AddStored(fromApi, stored, Len(stored), now)
  IN  Slice(SortDesc(merged), CacheCap)

(***************************************************************************)
(* mergeTransactions as a function: every pair of a stored list and an API *)
(* result within the bounds                                                *)
(***************************************************************************)
Hashes == {"a", "b", "c"}
Statuses == {"pending", "confirmed", "failed", "none"}

SeqsUpTo(S, n) == UNION {[1..k -> S] : k \in 0..n}

DistinctHashes(txs) == \A i, j \in DOMAIN txs : txs[i].hash = txs[j].hash => i = j

IsSortedDesc(txs) == \A i, j \in DOMAIN txs : i < j => txs[i].timestamp >= txs[j].timestamp

\* cached transactions as upsertTransaction / a saved merge leave them
StoredTxs ==
  {[hash |-> h, timestamp |-> ts, status |-> st, priority |-> "normal",
    createdAt |-> ts, lastCheckedAt |-> ts,
    epoch |-> IF st = "confirmed" THEN 1 ELSE Null, nonce |-> 1] :
     h \in Hashes, ts \in 1..MaxTs, st \in Statuses}

\* the cache holds one record per hash and is kept sorted, newest first
StoredLists == {l \in SeqsUpTo(StoredTxs, MaxStored) : DistinctHashes(l) /\ IsSortedDesc(l)}

ApiTxs == {[hash |-> h, timestamp |-> ts, epoch |-> 1, priority |-> "normal", nonce |-> 1] :
             h \in Hashes, ts \in 1..MaxTs}

ApiLists == SeqsUpTo(ApiTxs, MaxApi)

\* priorities a cached record carries, and those an API entry carries ("none": omitted)
StoredPriorities == {"normal", "express"}
ApiPriorities == {"none", "normal", "express", "EXPRESS"}

PriorityStoredTxs ==
  {[hash |-> h, timestamp |-> ts, status |-> "pending", priority |-> p,
    createdAt |-> ts, lastCheckedAt |-> ts, epoch |-> Null, nonce |-> 1] :
     h \in Hashes, ts \in 1..MaxTs, p \in StoredPriorities}

PriorityStoredLists ==
  {l \in SeqsUpTo(PriorityStoredTxs, MaxStored) : DistinctHashes(l) /\ IsSortedDesc(l)}

PriorityApiTxs == {[hash |-> h, timestamp |-> ts, epoch |-> 1, priority |-> p, nonce |-> 1] :
                     h \in Hashes, ts \in 1..MaxTs, p \in ApiPriorities}

PriorityApiLists == SeqsUpTo(PriorityApiTxs, MaxApi)

Merge ==
  /\ ~mDone
  /\ mResult' = MergeTransactions(mStored, mApi, mNow)
  /\ mDone' = TRUE
  /\ UNCHANGED <<mStored, mApi, mNow>>
  /\ UNCHANGED notMerge

\* the time that passes between two calls of mergeTransactions
MaxElapsed == 1

\* mergeTransactions(merged, apiTransactions): the result of a merge is merged with
\* the same API result again, `elapsed` later
MergeAgain(elapsed) ==
  /\ mDone
  /\ mNow + elapsed <= MaxTs + 1 + MaxElapsed
  /\ mStored' = mResult
  /\ mNow' = mNow + elapsed
  /\ mResult' = MergeTransactions(mResult, mApi, mNow')
  /\ UNCHANGED <<mApi, mDone>>
  /\ UNCHANGED notMerge

(***************************************************************************)
(* upsertTransaction and updateTransactionStatus as functions: every small *)
(* cache and one full cache, every transaction / status within the bounds  *)
(***************************************************************************)
UpsertHashes == 1..3
\* the first hash of the full cache
FullHash == 100

\* cached transactions as upsertTransaction / a saved merge leave them
UpsertStoredTxs ==
  {[hash |-> h, timestamp |-> ts, status |-> st, priority |-> p,
    createdAt |-> ts, lastCheckedAt |-> ts,
    epoch |-> IF st = "confirmed" THEN 1 ELSE Null, nonce |-> 1] :
     h \in UpsertHashes, ts \in 1..MaxTs, st \in {"pending", "confirmed"},
     p \in StoredPriorities}

\* a cache at the cap: CacheCap transactions of the newest timestamp
FullList ==
  [i \in 1..CacheCap |->
     [hash |-> FullHash + i, timestamp |-> MaxTs, status |-> "pending", priority |-> "normal",
      createdAt |-> MaxTs, lastCheckedAt |-> MaxTs, epoch |-> Null, nonce |-> 1]]

UpsertLists ==
  {l \in SeqsUpTo(UpsertStoredTxs, MaxStored) : DistinctHashes(l) /\ IsSortedDesc(l)}
    \cup {FullList}

\* priorities a caller of upsertTransaction passes ("none": omitted)
UpsertPriorities == {"none", "normal", "express", "EXPRESS", "fast"}

\* the transactions callers pass to upsertTransaction (createdAt 0: omitted)
UpsertTxs ==
  {[hash |-> h, timestamp |-> ts, status |-> "pending", priority |-> p,
    createdAt |-> c, lastCheckedAt |-> 0, epoch |-> Null, nonce |-> 1] :
     h \in UpsertHashes, ts \in 1..MaxTs, p \in UpsertPriorities, c \in {0, MaxTs + 1}}

Upsert(tx) ==
  /\ ~mDone
  /\ mApi' = <<tx>>
  /\ mResult' = UpsertTransaction(mStored, tx, mNow)
  /\ mDone' = TRUE
  /\ UNCHANGED <<mStored, mNow>>
  /\ UNCHANGED notMerge

\* the arguments callers pass to updateTransactionStatus (epoch Null: omitted)
UpdateStatuses == {"pending", "confirmed", "failed"}
UpdateEpochs == {Null, 2}

UpdateStatus(txHash, status, epoch) ==
  /\ ~mDone
  /\ mApi' = <<[hash |-> txHash, status |-> status, epoch |-> epoch]>>
  /\ mResult' = LET updated == UpdateTransactionStatus(mStored, txHash, status, epoch, mNow)
                IN  SaveTransactions(mStored, updated)
  /\ mDone' = TRUE
  /\ UNCHANGED <<mStored, mNow>>
  /\ UNCHANGED notMerge

(***************************************************************************)
(* The cache of one wallet under WalletView (part_010), TransactionsTab    *)
(* (part_001) and the remote ledger                                        *)
(***************************************************************************)
LedgerHashes == {"a", "b"}
\* the priority the send form passes to handleSend
SendPriorities == {"normal"}
NoTx == [hash |-> "none"]

\* getTransactions: the remote entry of a confirmed transaction
ApiOf(h) == [hash |-> h, timestamp |-> remoteTx[h].timestamp, epoch |-> remoteTx[h].epoch,
             priority |-> "normal", nonce |-> remoteTx[h].nonce]

\* the nonce the send form reserved and passes to handleSend: one more than the
\* number of transactions the remote has accepted from the address
NextSendNonce == Cardinality({h \in LedgerHashes : remoteTx[h].st # "none"}) + 1

\* getTransactions answers with a window of the confirmed transactions, newest first
ApiResponses ==
  {l \in SeqsUpTo({ApiOf(h) : h \in {x \in LedgerHashes : remoteTx[x].st = "confirmed"}},
                  Cardinality(LedgerHashes)) :
     DistinctHashes(l) /\ IsSortedDesc(l)}

StatusIn(txs, h) == IF HasHash(txs, h) THEN MapGet(txs, h).status ELSE "absent"

ConfirmedIn(txs) == {h \in LedgerHashes : StatusIn(txs, h) = "confirmed"}

PendingIn(txs) == {h \in LedgerHashes : StatusIn(txs, h) = "pending"}

\* startPollingPending(txList): the timers in pollingRef afterwards
StartPollingPending(txList) == PendingIn(txList)

\* every write of the cache and of the displayed list is followed by the history variables
Histories ==
  /\ everConfirmed' = everConfirmed \cup ConfirmedIn(cache')
  /\ seenConfirmed' = IF route' = "txs" THEN seenConfirmed \cup ConfirmedIn(displayed') ELSE {}

Tick ==
  /\ clock < MaxTs
  /\ clock' = clock + 1
  /\ UNCHANGED <<cache, remoteTx, route, sending, wvFetches, ttFetches, displayed, timers,
                 checks, everConfirmed, seenConfirmed>>
  /\ UNCHANGED notLedger

\* the remote ledger includes a submitted transaction in an epoch, after it has
\* answered the submission
RemoteConfirm(h) ==
  /\ remoteTx[h].st = "pending"
  /\ sending = NoTx \/ sending.hash # h
  /\ remoteTx' = [remoteTx EXCEPT ![h] = [@ EXCEPT !.st = "confirmed", !.epoch = 1]]
  /\ UNCHANGED <<clock, cache, route, sending, wvFetches, ttFetches, displayed, timers, checks,
                 everConfirmed, seenConfirmed>>
  /\ UNCHANGED notLedger

\* WalletView.handleSend up to `await sendTx(txData)`; the remote accepts the transaction
HandleSendSubmit(h, priority) ==
  /\ route = "home"
  /\ sending = NoTx
  /\ remoteTx[h].st = "none"
  /\ sending' = [hash |-> h, timestamp |-> clock, status |-> "pending", priority |-> priority,
                 createdAt |-> 0, lastCheckedAt |-> 0, epoch |-> Null, nonce |-> NextSendNonce]
  /\ remoteTx' = [remoteTx EXCEPT ![h] = [st |-> "pending", timestamp |-> clock, epoch |-> Null,
                                          nonce |-> NextSendNonce]]
  /\ UNCHANGED <<clock, cache, route, wvFetches, ttFetches, displayed, timers, checks,
                 everConfirmed, seenConfirmed>>
  /\ UNCHANGED notLedger

\* the number of transactions handleSend passes to setRecentTxs
RecentShown == 5

\* WalletView.handleSend after sendTx returned the hash: upsertTransaction, setRecentTxs
HandleSendDone ==
  /\ sending # NoTx
  /\ LET newTx == UpsertTransaction(cache, sending, clock)
     IN  /\ cache' = SaveTransactions(cache, newTx)
         /\ displayed' = IF route = "home" THEN Slice(newTx, RecentShown) ELSE displayed
  /\ sending' = NoTx
  /\ UNCHANGED <<clock, remoteTx, route, wvFetches, ttFetches, timers, checks>>
  /\ Histories
  /\ UNCHANGED notLedger

\* the user opens the wallet tab: TransactionsTab unmounts (its cleanup clears the
\* timers of its pollingRef), WalletView mounts and calls fetchTransactions.
\* Followed only when no request of TransactionsTab is awaiting its answer.
NavigateHome ==
  /\ route = "txs"
  /\ checks = {}
  /\ ttFetches = {}
  /\ Cardinality(wvFetches \cup {cache}) <= MaxInFlight
  /\ route' = "home"
  /\ wvFetches' = wvFetches \cup {cache}
  /\ timers' = {}
  /\ displayed' = cache
  /\ UNCHANGED <<checks, ttFetches>>
  /\ UNCHANGED <<clock, cache, remoteTx, sending>>
  /\ Histories
  /\ UNCHANGED notLedger

\* WalletView.fetchTransactions after getTransactions resolved
WvFetchDone ==
  /\ \E stored \in wvFetches, api \in ApiResponses :
        /\ LET merged == MergeTransactions(stored, api, clock)
           IN  /\ cache' = IF Len(merged) > 0 THEN SaveTransactions(cache, merged) ELSE cache
               /\ displayed' = IF route = "home" THEN merged ELSE displayed
        /\ wvFetches' = wvFetches \ {stored}
  /\ UNCHANGED <<clock, remoteTx, route, sending, ttFetches, timers, checks>>
  /\ Histories
  /\ UNCHANGED notLedger

\* WalletView.fetchTransactions after getTransactions rejected
WvFetchFailed ==
  /\ \E stored \in wvFetches : wvFetches' = wvFetches \ {stored}
  /\ UNCHANGED <<clock, cache, remoteTx, route, sending, ttFetches, displayed, timers, checks,
                 everConfirmed, seenConfirmed>>
  /\ UNCHANGED notLedger

\* the user opens the transactions tab: TransactionsTab mounts, shows the stored
\* list and calls fetchAndMergeTransactions
NavigateTxs ==
  /\ route = "home"
  /\ route' = "txs"
  /\ displayed' = cache
  /\ ttFetches' = {cache}
  /\ UNCHANGED <<clock, cache, remoteTx, sending, wvFetches, timers, checks>>
  /\ Histories
  /\ UNCHANGED notLedger

\* the 15 s interval of TransactionsTab calls fetchAndMergeTransactions
TtRefresh ==
  /\ route = "txs"
  /\ cache \notin ttFetches
  /\ Cardinality(ttFetches) < MaxInFlight
  /\ ttFetches' = ttFetches \cup {cache}
  /\ UNCHANGED <<clock, cache, remoteTx, route, sending, wvFetches, displayed, timers, checks,
                 everConfirmed, seenConfirmed>>
  /\ UNCHANGED notLedger

\* fetchAndMergeTransactions after getTransactions resolved: the merge is shown, not saved
TtFetchDone ==
  /\ \E stored \in ttFetches, api \in ApiResponses :
        /\ LET merged == MergeTransactions(stored, api, clock)
           IN  /\ displayed' = merged
               /\ timers' = StartPollingPending(merged)
        /\ ttFetches' = ttFetches \ {stored}
  /\ UNCHANGED <<clock, cache, remoteTx, route, sending, wvFetches, checks>>
  /\ Histories
  /\ UNCHANGED notLedger

\* fetchAndMergeTransactions after getTransactions rejected: falls back to the stored list
TtFetchFailed ==
  /\ \E stored \in ttFetches : ttFetches' = ttFetches \ {stored}
  /\ IF Len(cache) > 0
     THEN /\ displayed' = cache
          /\ timers' = StartPollingPending(cache)
     ELSE UNCHANGED <<displayed, timers>>
  /\ UNCHANGED <<clock, cache, remoteTx, route, sending, wvFetches, checks>>
  /\ Histories
  /\ UNCHANGED notLedger

\* a pollStatus timer fires: pollStatus runs up to `await getTransactionStatus`
TimerFires(h) ==
  /\ h \in timers
  /\ h \notin checks
  /\ timers' = timers \ {h}
  /\ checks' = checks \cup {h}
  /\ UNCHANGED <<clock, cache, remoteTx, route, sending, wvFetches, ttFetches, displayed,
                 everConfirmed, seenConfirmed>>
  /\ UNCHANGED notLedger

\* pollStatus after getTransactionStatus answered
StatusAnswered(h) ==
  /\ h \in checks
  /\ checks' = checks \ {h}
  /\ IF remoteTx[h].st = "confirmed"
     THEN LET updated == UpdateTransactionStatus(cache, h, "confirmed", remoteTx[h].epoch, clock)
          IN  /\ cache' = SaveTransactions(cache, updated)
              /\ displayed' = updated
              /\ timers' = timers \ {h}
     ELSE /\ timers' = timers \cup {h}
          /\ UNCHANGED <<cache, displayed>>
  /\ UNCHANGED <<clock, remoteTx, route, sending, wvFetches, ttFetches>>
  /\ Histories
  /\ UNCHANGED notLedger

LedgerNext ==
  \/ Tick
  \/ \E h \in LedgerHashes : RemoteConfirm(h)
  \/ \E h \in LedgerHashes, pr \in SendPriorities : HandleSendSubmit(h, pr)
  \/ HandleSendDone
  \/ NavigateHome
  \/ WvFetchDone
  \/ WvFetchFailed
  \/ NavigateTxs
  \/ TtRefresh
  \/ TtFetchDone
  \/ TtFetchFailed
  \/ \E h \in LedgerHashes : TimerFires(h)
  \/ \E h \in LedgerHashes : StatusAnswered(h)

(***************************************************************************)
(* The persisted cache of one address under long runs of upsertTransaction,*)
(* updateTransactionStatus and saved merges (part_007, part_010 36-55)      *)
(***************************************************************************)
\* the number of transactions upserted one after the other
MaxUpserts == 60
\* the number of transactions upserted that are older than the first one
MaxOlder == 1
\* the number of transactions upserted while a fetch awaits the API
MaxStale == 1
\* the hash of the first transaction sent; a transaction's timestamp is its number
FirstHash == 100

\* a pending transaction as handleSend passes it to upsertTransaction
SentTx(n) ==
  [hash |-> n, timestamp |-> n, status |-> "pending", priority |-> "normal",
   createdAt |-> 0, lastCheckedAt |-> 0, epoch |-> Null, nonce |-> 1]

\* the hash and the timestamp of a transaction the wallet received: only the
\* API reports it
ReceivedHash == 0
ReceivedTime == FirstHash + 30

SentHashes(txs) == {txs[i].hash : i \in DOMAIN txs} \ {ReceivedHash}
NewestHash(txs) == CHOOSE n \in SentHashes(txs) : \A m \in SentHashes(txs) : m <= n
OldestHash(txs) == CHOOSE n \in SentHashes(txs) : \A m \in SentHashes(txs) : m >= n

\* the next transaction sent, and one sent before every cached one
NewerTx == SentTx(IF SentHashes(cache) = {} THEN FirstHash ELSE NewestHash(cache) + 1)
OlderTx == SentTx(OldestHash(cache) - 1)

\* the fetches in flight have missed fewer than MaxStale upserts
FreshFetches ==
  \A stored \in wvFetches : Cardinality(SentHashes(cache) \ SentHashes(stored)) < MaxStale

\* upsertTransaction of a transaction newer than every cached one
StoreUpsertNewer ==
  /\ IF SentHashes(cache) = {} THEN TRUE ELSE NewestHash(cache) < FirstHash + MaxUpserts - 1
  /\ FreshFetches
  /\ cache' = SaveTransactions(cache, UpsertTransaction(cache, NewerTx, clock))
  /\ UNCHANGED <<clock, remoteTx, route, sending, wvFetches, ttFetches, displayed, timers,
                 checks, everConfirmed, seenConfirmed>>
  /\ UNCHANGED notLedger

\* upsertTransaction of a transaction older than every cached one
StoreUpsertOlder ==
  /\ SentHashes(cache) # {}
  /\ OldestHash(cache) > FirstHash - MaxOlder
  /\ FreshFetches
  /\ cache' = SaveTransactions(cache, UpsertTransaction(cache, OlderTx, clock))
  /\ UNCHANGED <<clock, remoteTx, route, sending, wvFetches, ttFetches, displayed, timers,
                 checks, everConfirmed, seenConfirmed>>
  /\ UNCHANGED notLedger

\* updateTransactionStatus(address, txHash, status, epoch)
StoreUpdateStatus(txHash, status) ==
  /\ cache' = SaveTransactions(cache,
                 UpdateTransactionStatus(cache, txHash, status,
                                         IF status = "confirmed" THEN 1 ELSE Null, clock))
  /\ UNCHANGED <<clock, remoteTx, route, sending, wvFetches, ttFetches, displayed, timers,
                 checks, everConfirmed, seenConfirmed>>
  /\ UNCHANGED notLedger

\* what getTransactions answers: nothing, the first transaction sent, or a
\* transaction received
StoreApiLists ==
  {<<>>,
   <<[hash |-> FirstHash, timestamp |-> FirstHash, epoch |-> 1, priority |-> "normal",
      nonce |-> 1]>>,
   <<[hash |-> ReceivedHash, timestamp |-> ReceivedTime, epoch |-> 1, priority |-> "none",
      nonce |-> 1]>>}

\* WalletView.fetchTransactions up to `await getTransactions`: `stored` is loaded
StoreFetch ==
  /\ wvFetches = {}
  /\ wvFetches' = {cache}
  /\ UNCHANGED <<clock, cache, remoteTx, route, sending, ttFetches, displayed, timers,
                 checks, everConfirmed, seenConfirmed>>
  /\ UNCHANGED notLedger

\* WalletView.fetchTransactions after getTransactions resolved: the merge of
\* `stored` and the API result is saved
StoreMerge(api) ==
  /\ \E stored \in wvFetches :
        /\ LET merged == MergeTransactions(stored, api, clock)
           IN  cache' = IF Len(merged) > 0 THEN SaveTransactions(cache, merged) ELSE cache
        /\ wvFetches' = wvFetches \ {stored}
  /\ UNCHANGED <<clock, remoteTx, route, sending, ttFetches, displayed, timers,
                 checks, everConfirmed, seenConfirmed>>
  /\ UNCHANGED notLedger

StoreNext ==
  \/ StoreUpsertNewer
  \/ StoreUpsertOlder
  \/ \E txHash \in {FirstHash}, status \in {"confirmed"} :
        StoreUpdateStatus(txHash, status)
  \/ StoreFetch
  \/ \E api \in StoreApiLists : StoreMerge(api)
  \/ WvFetchFailed

(***************************************************************************)
(* The send path: SendTransaction (part_013) and WalletView.handleSend     *)
(* (part_010 68-153) over the nonceManager, for the unlocked wallet        *)
(***************************************************************************)
IdleSend == [pc |-> "idle", nonce |-> Null, submits |-> 0, task |-> 0, error |-> "none"]

\* the getNextNonce invocation handleSend calls next
NextTask == CHOOSE t \in Tasks : task[t].pc = "idle" /\ \A u \in 1..(t - 1) : task[u].pc # "idle"

\* releaseNonce(wallet.addr, success) on the heap
Released(h, success) ==
  IF nonceStates[wallet] = NoObj THEN h
  ELSE [h EXCEPT ![nonceStates[wallet]] = ReleasedState(h[nonceStates[wallet]], success)]

\* SendTransaction.handleSubmit: the form (enabled while nothing is being sent and
\* no confirmation dialog is open) reserves a nonce
HandleSubmit(t) ==
  /\ hs.pc \in {"idle", "returned", "thrown"}
  /\ \A u \in Tasks : task[u].pc # "granted"
  /\ GetNextNonceCall(t)

\* handleSubmit after getNextNonce resolved: setPendingNonce, the dialog opens
HandleSubmitReserved(t, networkNonce) ==
  /\ hs.task # t
  /\ GetNextNonceResolve(t, networkNonce)

\* handleSubmit after getNextNonce rejected
HandleSubmitFailed(t) ==
  /\ hs.task # t
  /\ GetNextNonceReject(t)

\* SendTransaction.handleConfirm -> handleSend(to, amount, priority, pendingNonce)
\* up to `await sendTx(txData)`
HandleConfirm(t) ==
  /\ task[t].pc = "granted"
  /\ hs.pc \in {"idle", "returned", "thrown"}
  /\ hs' = [pc |-> "sending", nonce |-> task[t].nonce, submits |-> 1, task |-> 0,
            error |-> "none"]
  /\ task' = [task EXCEPT ![t] = Finished("done")]
  /\ UNCHANGED <<vault, wallet, nonceStates, heap, reserveSince, lastCommit>>
  /\ UNCHANGED <<mergeVars, sessionVars, ledgerVars, pollVars>>

\* SendTransaction.handleCancelConfirm: the dialog closes and the form forgets
\* the nonce it reserved; releaseNonce is not called
HandleCancelConfirm(t) ==
  /\ task[t].pc = "granted"
  /\ hs.pc \in {"idle", "returned", "thrown"}
  /\ task' = [task EXCEPT ![t] = Finished("cancelled")]
  /\ UNCHANGED <<vault, wallet, nonceStates, heap, reserveSince, lastCommit>>
  /\ UNCHANGED <<hs, mergeVars, sessionVars, ledgerVars, pollVars>>

\* handleSend after sendTx returned the hash: releaseNonce(true), upsertTransaction
SendTxAccepted(h) ==
  /\ hs.pc = "sending"
  /\ ~HasHash(cache, h)
  /\ heap' = Released(heap, TRUE)
  /\ cache' = SaveTransactions(cache,
                 UpsertTransaction(cache,
                   [hash |-> h, timestamp |-> clock, status |-> "pending", priority |-> "normal",
                    createdAt |-> 0, lastCheckedAt |-> 0, epoch |-> Null, nonce |-> hs.nonce],
                   clock))
  /\ hs' = [hs EXCEPT !.pc = "returned"]
  /\ UNCHANGED <<vault, wallet, nonceStates, task, reserveSince, lastCommit>>
  /\ UNCHANGED <<clock, remoteTx, route, sending, wvFetches, ttFetches, displayed, timers, checks,
                 everConfirmed, seenConfirmed>>
  /\ UNCHANGED <<mergeVars, sessionVars, pollVars>>

\* handleSend after sendTx threw: releaseNonce(false); an error message that contains
\* 'nonce' makes it call getNextNonce (up to its await) for a retry
SendTxRejected(nonceRelated) ==
  /\ hs.pc = "sending"
  /\ IF nonceRelated /\ hs.nonce # Null
     THEN /\ \E t \in Tasks : task[t].pc = "idle"
          /\ LET t == NextTask
                 h1 == Released(heap, FALSE)
                 o == IF nonceStates[wallet] # NoObj THEN nonceStates[wallet] ELSE t
             IN  IF h1[o].locked
                 THEN /\ heap' = h1
                      /\ task' = [task EXCEPT ![t] = Finished("done")]
                      /\ hs' = [hs EXCEPT !.pc = "thrown", !.error = "retry"]
                      /\ UNCHANGED nonceStates
                 ELSE /\ heap' = [h1 EXCEPT ![o].locked = TRUE]
                      /\ nonceStates' = [nonceStates EXCEPT ![wallet] = o]
                      /\ task' = [task EXCEPT ![t] = [@ EXCEPT !.pc = "fetching",
                                                       !.addr = wallet, !.obj = o]]
                      /\ hs' = [hs EXCEPT !.pc = "retrying", !.task = t]
     ELSE /\ heap' = Released(heap, FALSE)
          /\ hs' = [hs EXCEPT !.pc = "thrown", !.error = "send"]
          /\ UNCHANGED <<nonceStates, task>>
  /\ UNCHANGED <<vault, wallet, reserveSince, lastCommit>>
  /\ UNCHANGED <<mergeVars, sessionVars, ledgerVars, pollVars>>

\* the retry after getNextNonce resolved: `return handleSend(to, amount, priority,
\* freshNonce)` up to its `await sendTx(txData)`
RetryReserved(networkNonce) ==
  /\ hs.pc = "retrying"
  /\ LET t == hs.task
         o == task[t].obj
         st == ReservedState(heap[o], networkNonce)
     IN  /\ nonceStates' = [nonceStates EXCEPT ![task[t].addr] = o]
         /\ task' = [task EXCEPT ![t] = Finished("done")]
         /\ heap' = Collect([heap EXCEPT ![o] = st], nonceStates', task')
         /\ hs' = [pc |-> "sending", nonce |-> st.pendingNonce, submits |-> hs.submits + 1,
                   task |-> 0, error |-> "none"]
  /\ UNCHANGED <<vault, wallet, reserveSince, lastCommit>>
  /\ UNCHANGED <<mergeVars, sessionVars, ledgerVars, pollVars>>

\* the retry after getNextNonce rejected: `throw retryErr`
RetryReserveFailed ==
  /\ hs.pc = "retrying"
  /\ LET t == hs.task
         o == task[t].obj
     IN  /\ nonceStates' = [nonceStates EXCEPT ![task[t].addr] = o]
         /\ task' = [task EXCEPT ![t] = Finished("done")]
         /\ heap' = Collect([heap EXCEPT ![o] = UnlockedState(heap[o])], nonceStates', task')
  /\ hs' = [hs EXCEPT !.pc = "thrown", !.task = 0, !.error = "retry"]
  /\ UNCHANGED <<vault, wallet, reserveSince, lastCommit>>
  /\ UNCHANGED <<mergeVars, sessionVars, ledgerVars, pollVars>>

SendNext ==
  \/ \E t \in Tasks : HandleSubmit(t)
  \/ \E t \in Tasks, n \in 0..MaxRemote : HandleSubmitReserved(t, n)
  \/ \E t \in Tasks : HandleSubmitFailed(t)
  \/ \E t \in Tasks : HandleConfirm(t)
  \/ \E t \in Tasks : HandleCancelConfirm(t)
  \/ \E h \in LedgerHashes : SendTxAccepted(h)
  \/ \E nonceRelated \in BOOLEAN : SendTxRejected(nonceRelated)
  \/ \E n \in 0..MaxRemote : RetryReserved(n)
  \/ RetryReserveFailed

\* handleSend(to, amount, priority) called without a reservedNonce (the form passes
\* `pendingNonce || undefined`) while another send awaits sendTx and holds the
\* lock: `await getNextNonce` throws 'Transaction already in progress' inside the
\* try block, the catch block calls releaseNonce(wallet.addr, false) and rethrows
HandleSendUnreserved(t) ==
  /\ hs.pc = "sending"
  /\ task[t].pc = "idle"
  /\ t > 1 => task[t - 1].pc # "idle"
  /\ nonceStates[wallet] # NoObj
  /\ heap[nonceStates[wallet]].locked
  /\ heap' = Released(heap, FALSE)
  /\ task' = [task EXCEPT ![t] = Finished("done")]
  /\ reserveSince' = [reserveSince EXCEPT ![wallet] = TRUE]
  /\ UNCHANGED <<vault, wallet, nonceStates, lastCommit>>
  /\ UNCHANGED <<hs, mergeVars, sessionVars, ledgerVars, pollVars>>

\* the send path with handleSend also called without a reserved nonce
SendDirectNext ==
  \/ \E t \in Tasks : HandleSubmit(t)
  \/ \E t \in Tasks, n \in 0..MaxRemote : HandleSubmitReserved(t, n)
  \/ \E t \in Tasks : HandleSubmitFailed(t)
  \/ \E t \in Tasks : HandleConfirm(t)
  \/ \E t \in Tasks : HandleCancelConfirm(t)
  \/ \E h \in LedgerHashes : SendTxAccepted(h)
  \/ \E nonceRelated \in BOOLEAN : SendTxRejected(nonceRelated)
  \/ \E n \in 0..MaxRemote : RetryReserved(n)
  \/ RetryReserveFailed
  \/ \E t \in Tasks : HandleSendUnreserved(t)

(***************************************************************************)
(* The status poll of TransactionsTab (part_001)                           *)
(***************************************************************************)
\* number of pollStatus chains followed at the same time
MaxChains == 2
ChainIds == 1..MaxChains
NoChain == 0
FreeChain == [st |-> "free", hash |-> "none", due |-> 0, attempt |-> 0]

\* setTimeout(() => pollStatus(), 5000), in seconds
FirstDelay == 5
\* setTimeout(() => pollStatus(attempt + 1), 10000)
RetryDelay == 10
\* setInterval(() => fetchAndMergeTransactions(), 15000)
RefreshPeriod == 15
\* if (attempt >= 30) return
MaxAttempts == 30
\* the grain of the clock: the delays above are multiples of the shortest one
TimeStep == FirstDelay
\* the time the view is followed for with the node, the user and the network free
MaxTime == 45
\* the time the view is followed for while the transaction stays pending
MaxPendingTime == 320

\* what the node can answer to GET /tx/<hash>
StatusResponses ==
  {[ok |-> FALSE, code |-> 404, status |-> "none", epoch |-> Null],
   [ok |-> FALSE, code |-> 500, status |-> "none", epoch |-> Null],
   [ok |-> TRUE, code |-> 200, status |-> "pending", epoch |-> Null],
   [ok |-> TRUE, code |-> 200, status |-> "included", epoch |-> 1],
   [ok |-> TRUE, code |-> 200, status |-> "confirmed", epoch |-> 1]}

\* the answers the node gives for the hash in its present state
StatusResponsesOf(h) ==
  {r \in StatusResponses :
     IF remoteTx[h].st = "confirmed" THEN r.ok /\ r.epoch = remoteTx[h].epoch
     ELSE IF remoteTx[h].st = "pending" THEN r.epoch = Null
     ELSE ~r.ok}

\* rpc.getTransactionStatus on the response
GetTransactionStatus(response) ==
  IF ~response.ok
  THEN IF response.code = 404 THEN [status |-> "not_found", epoch |-> Null]
       ELSE [status |-> "pending", epoch |-> Null]
  ELSE IF response.status = "confirmed" /\ response.epoch # Null
       THEN [status |-> "finalized", epoch |-> response.epoch]
       ELSE IF response.status # "none" /\ response.epoch # Null
            THEN [status |-> "included", epoch |-> response.epoch]
            ELSE [status |-> "pending", epoch |-> Null]

\* the pending transactions of a list, in list order
RECURSIVE PendingTxs(_)
PendingTxs(txList) ==
  IF txList = <<>> THEN <<>>
  ELSE IF Head(txList).status = "pending" THEN <<Head(txList).hash>> \o PendingTxs(Tail(txList))
       ELSE PendingTxs(Tail(txList))

\* pollingRef.current.forEach(timer => clearTimeout(timer)); pollingRef.current.clear():
\* the chains afterwards. pollingRef holds the handles of timers that have not fired
\* (clearTimeout of a fired handle does nothing).
ClearTimers(ch, ref) ==
  [c \in ChainIds |-> IF \E h \in LedgerHashes : ref[h] = c THEN FreeChain ELSE ch[c]]

FreeIds(ch) == {c \in ChainIds : ch[c].st = "free"}

\* pendingTxs.forEach(tx => { ...; const timer = setTimeout(() => pollStatus(), 5000);
\* pollingRef.current.set(tx.hash, timer) })
RECURSIVE SetTimers(_, _, _)
SetTimers(pr, hashes, now) ==
  IF hashes = <<>> THEN pr
  ELSE LET c == CHOOSE x \in FreeIds(pr.chains) : \A y \in FreeIds(pr.chains) : x <= y
       IN  SetTimers([chains |-> [pr.chains EXCEPT ![c] = [st |-> "timer", hash |-> Head(hashes),
                                                         due |-> now + FirstDelay, attempt |-> 0]],
                      ref |-> [pr.ref EXCEPT ![Head(hashes)] = c]],
                     Tail(hashes), now)

\* startPollingPending(txList) on the chains and pollingRef
StartPolling(txList, now) ==
  SetTimers([chains |-> ClearTimers(chains, pollingRef),
             ref |-> [h \in LedgerHashes |-> NoChain]],
            PendingTxs(txList), now)

\* enough chain identifiers are left to follow startPollingPending(txList)
CanStartPolling(txList) ==
  Cardinality(FreeIds(ClearTimers(chains, pollingRef))) >= Len(PendingTxs(txList))

\* time passes; a timer that is due fires before it does, and a request to the node
\* is answered within the grain of the clock
PollTick(limit) ==
  /\ clock + TimeStep <= limit
  /\ \A c \in ChainIds : chains[c].st = "timer" => chains[c].due > clock
  /\ \A c \in ChainIds : chains[c].st # "check"
  /\ ttFetches = {}
  /\ interval = Null \/ interval > clock
  /\ interval # Null \/ \E c \in ChainIds : chains[c].st = "timer"
  /\ clock' = clock + TimeStep
  /\ UNCHANGED <<cache, remoteTx, route, sending, wvFetches, ttFetches, displayed, timers,
                 checks, everConfirmed, seenConfirmed>>
  /\ UNCHANGED <<nonceVars, mergeVars, sessionVars, sendVars, pollVars>>

\* the refresh interval fires: fetchAndMergeTransactions up to `await getTransactions`
\* (requests beyond MaxInFlight are never answered)
IntervalFires ==
  /\ interval # Null
  /\ interval <= clock
  /\ interval' = interval + RefreshPeriod
  /\ ttFetches' = IF Cardinality(ttFetches \cup {cache}) <= MaxInFlight
                  THEN ttFetches \cup {cache} ELSE ttFetches
  /\ UNCHANGED <<clock, cache, remoteTx, route, sending, wvFetches, displayed, timers, checks,
                 everConfirmed, seenConfirmed>>
  /\ UNCHANGED <<chains, pollingRef, pollCalls>>
  /\ UNCHANGED <<nonceVars, mergeVars, sessionVars, sendVars>>

\* fetchAndMergeTransactions after getTransactions resolved: setTransactions(merged),
\* startPollingPending(merged)
PollFetchDone ==
  /\ \E stored \in ttFetches, api \in ApiResponses :
        LET merged == MergeTransactions(stored, api, clock)
        IN  /\ CanStartPolling(merged)
            /\ displayed' = IF route = "txs" THEN merged ELSE displayed
            /\ chains' = StartPolling(merged, clock).chains
            /\ pollingRef' = StartPolling(merged, clock).ref
            /\ ttFetches' = ttFetches \ {stored}
  /\ UNCHANGED <<clock, cache, remoteTx, route, sending, wvFetches, timers, checks>>
  /\ Histories
  /\ UNCHANGED <<interval, pollCalls>>
  /\ UNCHANGED <<nonceVars, mergeVars, sessionVars, sendVars>>

\* fetchAndMergeTransactions after getTransactions rejected: the stored list is shown
\* and startPollingPending(stored) is called
PollFetchFailed ==
  /\ \E stored \in ttFetches : ttFetches' = ttFetches \ {stored}
  /\ IF Len(cache) > 0
     THEN /\ CanStartPolling(cache)
          /\ displayed' = IF route = "txs" THEN cache ELSE displayed
          /\ chains' = StartPolling(cache, clock).chains
          /\ pollingRef' = StartPolling(cache, clock).ref
     ELSE UNCHANGED <<displayed, chains, pollingRef>>
  /\ UNCHANGED <<clock, cache, remoteTx, route, sending, wvFetches, timers, checks>>
  /\ Histories
  /\ UNCHANGED <<interval, pollCalls>>
  /\ UNCHANGED <<nonceVars, mergeVars, sessionVars, sendVars>>

\* a pollStatus timer fires: pollStatus(attempt) up to `await getTransactionStatus`
PollTimerFires(c) ==
  /\ chains[c].st = "timer"
  /\ chains[c].due <= clock
  /\ pollingRef' = [h \in LedgerHashes |-> IF pollingRef[h] = c THEN NoChain ELSE pollingRef[h]]
  /\ IF chains[c].attempt >= MaxAttempts
     THEN /\ chains' = [chains EXCEPT ![c] = FreeChain]
          /\ UNCHANGED pollCalls
     ELSE /\ chains' = [chains EXCEPT ![c].st = "check"]
          /\ pollCalls' = [pollCalls EXCEPT ![chains[c].hash] = @ + 1]
  /\ UNCHANGED interval
  /\ UNCHANGED <<ledgerVars, nonceVars, mergeVars, sessionVars, sendVars>>

\* pollStatus after getTransactionStatus answered
PollStatusAnswered(c, response) ==
  /\ chains[c].st = "check"
  /\ response \in StatusResponsesOf(chains[c].hash)
  /\ LET h == chains[c].hash
         status == GetTransactionStatus(response)
     IN  IF status.status \in {"finalized", "included"}
         THEN LET updated == UpdateTransactionStatus(cache, h, "confirmed", status.epoch, clock)
              IN  /\ cache' = SaveTransactions(cache, updated)
                  /\ displayed' = IF route = "txs" THEN updated ELSE displayed
                  /\ pollingRef' = [pollingRef EXCEPT ![h] = NoChain]
                  /\ chains' = [chains EXCEPT ![c] = FreeChain]
         ELSE /\ chains' = [chains EXCEPT ![c] = [st |-> "timer", hash |-> h,
                                                  due |-> clock + RetryDelay,
                                                  attempt |-> chains[c].attempt + 1]]
              /\ pollingRef' = [pollingRef EXCEPT ![h] = c]
              /\ UNCHANGED <<cache, displayed>>
  /\ UNCHANGED <<clock, remoteTx, route, sending, wvFetches, ttFetches, timers, checks>>
  /\ Histories
  /\ UNCHANGED <<interval, pollCalls>>
  /\ UNCHANGED <<nonceVars, mergeVars, sessionVars, sendVars>>

\* App.handleLock while the transactions view is shown: clearNonceState,
\* clearDecryptedWalletCache, clearUnlockSession, setWallet(null), setShowUnlock(true);
\* TransactionsTab unmounts and its effect cleanup clears the interval and the timers
\* of pollingRef
TtUnmount ==
  /\ route = "txs"
  /\ wallet # NoAddr
  /\ nonceStates' = [nonceStates EXCEPT ![wallet] = NoObj]
  /\ reserveSince' = [reserveSince EXCEPT ![wallet] = FALSE]
  /\ lastCommit' = [lastCommit EXCEPT ![wallet] = Null]
  /\ task' = MarkStale(task, {wallet})
  /\ heap' = Collect(heap, nonceStates', task')
  /\ wallet' = NoAddr
  /\ route' = "locked"
  /\ interval' = Null
  /\ chains' = ClearTimers(chains, pollingRef)
  /\ pollingRef' = [h \in LedgerHashes |-> NoChain]
  /\ displayed' = <<>>
  /\ decrypted' = ClearDecryptedWalletCache(decrypted, wallet)
  /\ session' = NoSession
  /\ showUnlock' = TRUE
  /\ UNCHANGED <<clock, cache, remoteTx, sending, wvFetches, ttFetches, timers, checks>>
  /\ Histories
  /\ UNCHANGED <<vault, pollCalls, dateNow, otherCaches>>
  /\ UNCHANGED <<mergeVars, sendVars>>

PollNext ==
  \/ PollTick(MaxTime)
  \/ \E h \in LedgerHashes : RemoteConfirm(h)
  \/ IntervalFires
  \/ PollFetchDone
  \/ PollFetchFailed
  \/ \E c \in ChainIds : PollTimerFires(c)
  \/ \E c \in ChainIds, response \in StatusResponses : PollStatusAnswered(c, response)
  \/ TtUnmount

\* the view stays mounted and the node never includes the transaction
PendingNext ==
  \/ PollTick(MaxPendingTime)
  \/ IntervalFires
  \/ PollFetchDone
  \/ PollFetchFailed
  \/ \E c \in ChainIds : PollTimerFires(c)
  \/ \E c \in ChainIds, response \in StatusResponses : PollStatusAnswered(c, response)

(***************************************************************************)
(* App.handleLogout (src/App.tsx 119-135) with clearAllWalletData          *)
(* (part_008 154-181), and the tabs of the browser that share localStorage *)
(***************************************************************************)

\* the address whose cache, views and sends the ledger variables follow
LedgerAddr == "oct1"

ClearedTxKeysNone(keys) == keys

\* clearAllWalletData on the octra_tx_ items of localStorage: the addresses that
\* keep one (every key that starts with octra_tx_ is removed)
ClearedTxKeys(keys) == {a \in keys : FALSE}

\* App.handleLogout: clearNonceState(wallet.addr); clearAllNonceStates();
\* clearAllWalletData(); setWallet(null); navigate('/').  The views of the wallet
\* unmount (the cleanup of TransactionsTab clears its interval and its timers);
\* the requests they are awaiting stay in flight.
HandleLogout ==
  /\ wallet # NoAddr
  /\ nonceStates' = [a \in Addrs |-> NoObj]
  /\ reserveSince' = [a \in Addrs |-> FALSE]
  /\ lastCommit' = [a \in Addrs |-> Null]
  /\ task' = MarkStale(task, Addrs)
  /\ wallet' = NoAddr
  /\ vault' = NoAddr
  /\ heap' = Collect(heap, nonceStates', task')
  /\ decrypted' = [a \in Addrs |-> NoAddr]
  /\ session' = NoSession
  /\ showUnlock' = FALSE
  /\ LET kept == ClearedTxKeys(otherCaches \cup (IF cache = <<>> THEN {} ELSE {LedgerAddr}))
     IN  /\ cache' = IF LedgerAddr \in kept THEN cache ELSE <<>>
         /\ otherCaches' = kept \ {LedgerAddr}
  /\ route' = "home"
  /\ displayed' = <<>>
  /\ timers' = {}
  /\ interval' = Null
  /\ chains' = ClearTimers(chains, pollingRef)
  /\ pollingRef' = [h \in LedgerHashes |-> NoChain]
  /\ UNCHANGED <<clock, remoteTx, sending, wvFetches, ttFetches, checks, pollCalls, dateNow>>
  /\ Histories
  /\ UNCHANGED <<mergeVars, sendVars>>

\* another tab of the browser logs out (clearAllWalletData removes the
\* octra_wallet item and the octra_tx_ items of localStorage) or imports a
\* wallet (saveEncryptedWallet writes it): sessionStorage of this tab is not touched
OtherTabLogout ==
  /\ vault # NoAddr
  /\ vault' = NoAddr
  /\ cache' = <<>>
  /\ otherCaches' = {}
  /\ UNCHANGED <<wallet, nonceStates, heap, task, reserveSince, lastCommit>>
  /\ UNCHANGED <<session, decrypted, dateNow, showUnlock>>
  /\ UNCHANGED <<clock, remoteTx, route, sending, wvFetches, ttFetches, displayed, timers, checks,
                 everConfirmed, seenConfirmed>>
  /\ UNCHANGED <<mergeVars, sendVars, pollVars>>

OtherTabImport(a) ==
  /\ vault = NoAddr
  /\ vault' = a
  /\ UNCHANGED <<wallet, nonceStates, heap, task, reserveSince, lastCommit>>
  /\ UNCHANGED <<sessionVars, notApp>>

SessionNext ==
  \/ \E a \in Addrs : HandleWalletImport(a)
  \/ HandleUnlock
  \/ HandleLock
  \/ HandleLogout
  \/ Reload
  \/ SessionTick
  \/ OtherTabLogout
  \/ \E a \in Addrs : OtherTabImport(a)

NonceNext ==
  \/ \E a \in Addrs : HandleWalletImport(a)
  \/ HandleUnlock
  \/ HandleLock
  \/ HandleLogout
  \/ \E t \in Tasks : GetNextNonceCall(t)
  \/ \E t \in Tasks, n \in 0..MaxRemote : GetNextNonceResolve(t, n)
  \/ \E t \in Tasks : GetNextNonceReject(t)
  \/ \E t \in Tasks, success \in BOOLEAN : ReleaseNonce(t, success)

\* another tab, in which the wallet a is unlocked, completes a send:
\* upsertTransaction writes octra_tx_<a>
OtherTabSend(a) ==
  /\ a \notin otherCaches
  /\ otherCaches' = otherCaches \cup {a}
  /\ UNCHANGED <<session, decrypted, dateNow, showUnlock>>
  /\ UNCHANGED <<nonceVars, notApp>>

\* the send form of the unlocked wallet LedgerAddr calls WalletView.handleSend
WalletSendSubmit(h, priority) ==
  /\ wallet = LedgerAddr
  /\ HandleSendSubmit(h, priority)

\* the wallet LedgerAddr with its send form, its nonce states, logout and import
LogoutNext ==
  \/ Tick
  \/ \E h \in LedgerHashes : RemoteConfirm(h)
  \/ \E h \in LedgerHashes, pr \in SendPriorities : WalletSendSubmit(h, pr)
  \/ HandleSendDone
  \/ \E t \in {1} : GetNextNonceCall(t)
  \/ \E t \in {1}, n \in 0..MaxRemote : GetNextNonceResolve(t, n)
  \/ HandleLogout
  \/ \E a \in Addrs : HandleWalletImport(a)
  \/ \E a \in Addrs \ {LedgerAddr} : OtherTabSend(a)

(***************************************************************************)
(* Strings and the base64 functions of the browser.  A string is a         *)
(* sequence of one-character strings, a binary string or Uint8Array a      *)
(* sequence of numbers in 0..255.                                          *)
(***************************************************************************)

Repeat(c, n) == [i \in 1..n |-> c]

Base64Alphabet ==
  <<"A", "B", "C", "D", "E", "F", "G", "H", "I", "J", "K", "L", "M",
    "N", "O", "P", "Q", "R", "S", "T", "U", "V", "W", "X", "Y", "Z",
    "a", "b", "c", "d", "e", "f", "g", "h", "i", "j", "k", "l", "m",
    "n", "o", "p", "q", "r", "s", "t", "u", "v", "w", "x", "y", "z",
    "0", "1", "2", "3", "4", "5", "6", "7", "8", "9", "+", "/">>

InAlphabet(c) == \E i \in DOMAIN Base64Alphabet : Base64Alphabet[i] = c

Base64Index(c) == (CHOOSE i \in DOMAIN Base64Alphabet : Base64Alphabet[i] = c) - 1

HexDigits == {"0", "1", "2", "3", "4", "5", "6", "7", "8", "9", "a", "b", "c", "d", "e", "f", "A", "B", "C", "D", "E", "F"}

\* window.atob: ASCII whitespace is removed, one or two "=" at the end of a
\* string whose length is a multiple of 4 are removed, a rest of length 1 modulo
\* 4 or a character outside the alphabet throws, left-over bits are discarded
Atob(str) ==
  LET stripped == SelectSeq(str, LAMBDA c : c # " ")
      n == Len(stripped)
      pads == IF n % 4 = 0 /\ n >= 1 /\ stripped[n] = "="
              THEN (IF n >= 2 /\ stripped[n - 1] = "=" THEN 2 ELSE 1)
              ELSE 0
      data == SubSeq(stripped, 1, n - pads)
      d == Len(data)
  IN  IF d % 4 = 1 \/ \E i \in 1..d : ~InAlphabet(data[i])
      THEN [ok |-> FALSE, bytes |-> <<>>]
      ELSE LET s == Tuple([i \in 1..d |-> Base64Index(data[i])])
               sx(i) == IF i <= d THEN s[i] ELSE 0
               byte(j) ==
                 LET g == 4 * ((j - 1) \div 3)
                     r == (j - 1) % 3
                 IN  IF r = 0 THEN sx(g + 1) * 4 + (sx(g + 2) \div 16)
                     ELSE IF r = 1 THEN (sx(g + 2) % 16) * 16 + (sx(g + 3) \div 4)
                     ELSE (sx(g + 3) % 4) * 64 + sx(g + 4)
           IN  [ok |-> TRUE, bytes |-> Tuple([j \in 1..((d * 6) \div 8) |-> byte(j)])]

\* window.btoa on a binary string: base64 with "=" padding
Btoa(bytes) ==
  LET n == Len(bytes)
      bx(i) == IF i <= n THEN bytes[i] ELSE 0
      char(k) ==
        LET g == 3 * ((k - 1) \div 4)
            r == (k - 1) % 4
        IN  IF r = 0 THEN Base64Alphabet[(bx(g + 1) \div 4) + 1]
            ELSE IF r = 1 THEN Base64Alphabet[(bx(g + 1) % 4) * 16 + (bx(g + 2) \div 16) + 1]
            ELSE IF r = 2
                 THEN IF g + 2 > n THEN "="
                      ELSE Base64Alphabet[(bx(g + 2) % 16) * 4 + (bx(g + 3) \div 64) + 1]
                 ELSE IF g + 3 > n THEN "=" ELSE Base64Alphabet[(bx(g + 3) % 64) + 1]
  IN  Tuple([k \in 1..(4 * ((n + 2) \div 3)) |-> char(k)])

(***************************************************************************)
(* validatePrivateKey (part_010 425-453)                                   *)
(***************************************************************************)

\* the byte length of an ed25519 private key
KeyLength == 32

\* isBase64: btoa(atob(str)) === str, false when atob throws
IsBase64(str) == Atob(str).ok /\ Btoa(Atob(str).bytes) = str

StartsWith0x(key) == Len(key) >= 2 /\ key[1] = "0" /\ key[2] = "x"

\* str.match(/.{1,2}/g)!.map(byte => parseInt(byte, 16)): the number of bytes;
\* match gives null for the empty string (the call of map then throws), and
\* parseInt gives NaN, stored as 0, for a chunk that is not hexadecimal
HexPairs(str) == [matched |-> Len(str) > 0, length |-> (Len(str) + 1) \div 2]

\* validatePrivateKey: the try block returns keyBytes.length === 32, the catch block false
ValidatePrivateKey(key) ==
  IF IsBase64(key)
  THEN Len(Atob(key).bytes) = KeyLength
  ELSE LET pairs == IF StartsWith0x(key) THEN HexPairs(SubSeq(key, 3, Len(key)))
                    ELSE HexPairs(key)
       IN  pairs.matched /\ pairs.length = KeyLength

\* the keys validatePrivateKey is given: runs of one character, with or
\* without the prefix 0x and "=" at the end
MaxKeyChars == 66
KeyChars == {"A", "a", "0", "B", "z", "!"}
KeyStrings ==
  {prefix \o Repeat(c, n) \o pad :
     prefix \in {<<>>, <<"0", "x">>}, c \in KeyChars, n \in 0..MaxKeyChars,
     pad \in {<<>>, <<"=">>, <<"=", "=">>}}

ValidateKey(key) ==
  /\ ~mDone
  /\ mApi' = key
  /\ mResult' = ValidatePrivateKey(key)
  /\ mDone' = TRUE
  /\ UNCHANGED <<mStored, mNow>>
  /\ UNCHANGED notMerge

ValidateKeyNext == \E key \in KeyStrings : ValidateKey(key)

(***************************************************************************)
(* amountToMicroOCT (part_010 323-371).  A BigInt is the sequence of its   *)
(* decimal digits, most significant first, without leading zeros.          *)
(***************************************************************************)

\* microOCT in one OCT, and the decimal places an amount may have
MICRO_OCT == 1000000
MicroDecimals == 6

DigitChars == <<"0", "1", "2", "3", "4", "5", "6", "7", "8", "9">>

IsDigit(c) == \E i \in DOMAIN DigitChars : DigitChars[i] = c

DigitOf(c) == (CHOOSE i \in DOMAIN DigitChars : DigitChars[i] = c) - 1

\* /^\d+$/.test(str)
AllDigits(str) == str # <<>> /\ \A i \in DOMAIN str : IsDigit(str[i])

\* String.prototype.trim, for the blank
Trim(str) ==
  LET inked == {i \in DOMAIN str : str[i] # " "}
  IN  IF inked = {} THEN <<>>
      ELSE SubSeq(str, CHOOSE i \in inked : \A j \in inked : i <= j,
                       CHOOSE i \in inked : \A j \in inked : i >= j)

\* String.prototype.split(sep) for a separator of one character
Split(str, sep) ==
  LET cuts == {0, Len(str) + 1} \cup {i \in DOMAIN str : str[i] = sep}
      cut(k) == CHOOSE c \in cuts : Cardinality({d \in cuts : d < c}) = k - 1
  IN  [k \in 1..(Cardinality(cuts) - 1) |-> SubSeq(str, cut(k) + 1, cut(k + 1) - 1)]

\* String.prototype.padStart, String.prototype.padEnd
PadStart(str, n, c) == Repeat(c, Max(n - Len(str), 0)) \o str
PadEnd(str, n, c) == str \o Repeat(c, Max(n - Len(str), 0))

StripZeros(digits) ==
  LET nonzero == {i \in DOMAIN digits : digits[i] # 0}
  IN  IF nonzero = {} THEN <<0>>
      ELSE SubSeq(digits, CHOOSE i \in nonzero : \A j \in nonzero : i <= j, Len(digits))

\* BigInt(str) for a string of digits
BigInt(str) == StripZeros([i \in DOMAIN str |-> DigitOf(str[i])])

RECURSIVE DigitsOfNat(_)
DigitsOfNat(n) == IF n < 10 THEN <<n>> ELSE Append(DigitsOfNat(n \div 10), n % 10)

RECURSIVE TimesFrom(_, _, _)
TimesFrom(a, m, carry) ==
  IF a = <<>> THEN DigitsOfNat(carry)
  ELSE LET p == a[Len(a)] * m + carry
       IN  Append(TimesFrom(SubSeq(a, 1, Len(a) - 1), m, p \div 10), p % 10)

\* a * m for a BigInt a and a BigInt m given as a number
BigTimes(a, m) == StripZeros(TimesFrom(a, m, 0))

RECURSIVE PlusFrom(_, _, _)
PlusFrom(a, b, carry) ==
  IF a = <<>> THEN <<carry>>
  ELSE LET sum == a[Len(a)] + b[Len(b)] + carry
       IN  Append(PlusFrom(SubSeq(a, 1, Len(a) - 1), SubSeq(b, 1, Len(b) - 1), sum \div 10),
                  sum % 10)

\* a + b for BigInts
BigPlus(a, b) ==
  LET n == Max(Len(a), Len(b))
  IN  StripZeros(PlusFrom(Repeat(0, n - Len(a)) \o a, Repeat(0, n - Len(b)) \o b, 0))

\* BigInt.prototype.toString
BigToString(a) == [i \in DOMAIN a |-> DigitChars[a[i] + 1]]

\* a call that threw, a call that returned a value
Thrown == [ok |-> FALSE, value |-> <<>>]
Returned(value) == [ok |-> TRUE, value |-> value]

AmountToMicroOCT(amount) ==
  LET trimmed == Trim(amount)
      parts == Split(trimmed, ".")
      whole == parts[1]
      decimals == IF Len(parts) >= 2 THEN parts[2] ELSE <<>>
  IN  IF trimmed = <<>> THEN Thrown
      ELSE IF trimmed \in {<<"N", "a", "N">>, <<"I", "n", "f", "i", "n", "i", "t", "y">>, <<"-", "I", "n", "f", "i", "n", "i", "t", "y">>} THEN Thrown
      ELSE IF trimmed[1] = "-" THEN Thrown
      ELSE IF Len(parts) > 2 THEN Thrown
      ELSE IF ~AllDigits(whole) THEN Thrown
      ELSE IF Len(decimals) > MicroDecimals THEN Thrown
      ELSE IF decimals # <<>> /\ ~AllDigits(decimals) THEN Thrown
      ELSE LET wholeBigInt == BigInt(whole)
               decimalsPadded == Slice(PadEnd(decimals, MicroDecimals, "0"), MicroDecimals)
               decimalsBigInt == BigInt(decimalsPadded)
           IN  Returned(BigToString(BigPlus(BigTimes(wholeBigInt, MICRO_OCT), decimalsBigInt)))

\* the amounts amountToMicroOCT is given: a whole part, a fraction part, blanks around
MaxWholeDigits == 20
WholeParts ==
  {<<>>,
   <<"0">>,
   <<"1">>,
   <<"7">>,
   <<"1", "0">>,
   <<"0", "0", "7">>,
   <<"9", "9", "9">>,
   <<"1", "0", "0", "0">>,
   <<"2", "0", "0", "0">>,
   <<"-", "1">>,
   <<"-", "0">>,
   <<"1", "a">>,
   <<"N", "a", "N">>,
   <<"I", "n", "f", "i", "n", "i", "t", "y">>,
   <<"-", "I", "n", "f", "i", "n", "i", "t", "y">>,
   <<"+", "5">>,
   <<"1", "e", "3">>,
   <<"1", " ", "0">>,
   Repeat("9", MaxWholeDigits), <<"1">> \o Repeat("0", MaxWholeDigits)}
FractionParts ==
  {<<>>,
   <<".">>,
   <<".", "5">>,
   <<".", "0", "5">>,
   <<".", "5", "0", "0", "0", "0", "0">>,
   <<".", "1", "2", "3", "4", "5", "6">>,
   <<".", "0", "0", "0", "0", "0", "1">>,
   <<".", "9", "9", "9", "9", "9", "9">>,
   <<".", "0", "0", "0", "0", "0", "0", "1">>,
   <<".", "1", "2", "3", "4", "5", "6", "7">>,
   <<".", "5", "a">>,
   <<".", "5", ".", "5">>,
   <<".", "-", "5">>}
AmountStrings ==
  {before \o whole \o fraction \o after :
     before \in {<<>>, <<" ">>}, whole \in WholeParts, fraction \in FractionParts,
     after \in {<<>>, <<" ">>}}

ConvertAmount(amount) ==
  /\ ~mDone
  /\ mApi' = amount
  /\ mResult' = AmountToMicroOCT(amount)
  /\ mDone' = TRUE
  /\ UNCHANGED <<mStored, mNow>>
  /\ UNCHANGED notMerge

ConvertAmountNext == \E amount \in AmountStrings : ConvertAmount(amount)

(***************************************************************************)
(* signTransactionData (part_010 377-423) and the payload handleSend       *)
(* gives to sendTransaction (part_010 85-116)                              *)
(***************************************************************************)

\* the amount in OCT from which the fee tag is "3"
HighValue == 1000

\* a < n for a BigInt a and a number n
BigBelow(a, n) ==
  LET b == DigitsOfNat(n)
  IN  \/ Len(a) < Len(b)
      \/ /\ Len(a) = Len(b)
         /\ \E i \in DOMAIN a : a[i] < b[i] /\ \A j \in 1..(i - 1) : a[j] = b[j]

\* parseFloat(amount) < 1000 ? "1000" : "3", for an amount amountToMicroOCT
\* accepts: the fraction is below 1, so the whole part decides
Ou(amount) ==
  IF BigBelow(BigInt(Split(Trim(amount), ".")[1]), HighValue) THEN "1000" ELSE "3"

\* nacl.sign.detached: a value that the key and the message determine
Signature(privateKey, message) == [key |-> privateKey, message |-> message]

SignTransactionData(privateKey, from, to, amount, nonce, timestamp) ==
  LET amountRaw == AmountToMicroOCT(amount)
      txData == [from |-> from, to_ |-> to, amount |-> amountRaw.value, nonce |-> nonce,
                 ou |-> Ou(amount), timestamp |-> timestamp]
  IN  IF ~amountRaw.ok THEN Thrown
      ELSE Returned([signature |-> Signature(privateKey, txData), publicKey |-> <<"pub", privateKey>>])

\* handleSend from the signing to the call of sendTx: the txData it passes
TxData(privateKey, addr, to, amount, priority, txNonce, txTimestamp) ==
  LET signed == SignTransactionData(privateKey, addr, to, amount, txNonce, txTimestamp)
  IN  IF ~signed.ok THEN Thrown
      ELSE Returned([from |-> addr, to_ |-> to, amount |-> AmountToMicroOCT(amount).value,
                     nonce |-> txNonce, ou |-> Ou(amount), timestamp |-> txTimestamp,
                     signature |-> signed.value.signature,
                     public_key |-> signed.value.publicKey,
                     priority |-> priority])

BuildTxData(amount, priority, txNonce, txTimestamp) ==
  /\ ~mDone
  /\ mApi' = [amount |-> amount, priority |-> priority, nonce |-> txNonce, timestamp |-> txTimestamp]
  /\ mResult' = TxData("priv", LedgerAddr, "oct2", amount, priority, txNonce, txTimestamp)
  /\ mDone' = TRUE
  /\ UNCHANGED <<mStored, mNow>>
  /\ UNCHANGED notMerge

TxDataNext ==
  \E amount \in AmountStrings, priority \in SendPriorities, txNonce \in 1..MaxRemote,
     txTimestamp \in 1..MaxTs :
    BuildTxData(amount, priority, txNonce, txTimestamp)

(***************************************************************************)
(* encryptPrivateKey and decryptPrivateKey (src/utils/encryption.ts).  In  *)
(* this section a string is the sequence of its UTF-16 code units.         *)
(* PBKDF2 and AES-GCM are the ideal ones: the derived key is a value that  *)
(* the HMAC key and the salt determine, and a ciphertext opens under the   *)
(* key and iv that made it and under no other.                             *)
(***************************************************************************)

MinPassphrase == 8
SaltBytes == 16
IvBytes == 12
\* the block of HMAC-SHA-256, in bytes
HmacBlock == 64

IsHighSurrogate(u) == u >= 55296 /\ u <= 56319
IsLowSurrogate(u) == u >= 56320 /\ u <= 57343

\* TextEncoder.encode: UTF-8, a surrogate without its partner becomes U+FFFD
Utf8Encode(str) ==
  LET n == Len(str)
      paired(i) == IsHighSurrogate(str[i]) /\ i < n /\ IsLowSurrogate(str[i + 1])
      bytes(i) ==
        LET u == str[i]
        IN  IF paired(i)
            THEN LET cp == 65536 + (u - 55296) * 1024 + (str[i + 1] - 56320)
                 IN  <<240 + (cp \div 262144), 128 + ((cp \div 4096) % 64),
                       128 + ((cp \div 64) % 64), 128 + (cp % 64)>>
            ELSE IF IsLowSurrogate(u) /\ i > 1 /\ paired(i - 1) THEN <<>>
            ELSE IF IsHighSurrogate(u) \/ IsLowSurrogate(u) THEN <<239, 191, 189>>
            ELSE IF u < 128 THEN <<u>>
            ELSE IF u < 2048 THEN <<192 + (u \div 64), 128 + (u % 64)>>
            ELSE <<224 + (u \div 4096), 128 + ((u \div 64) % 64), 128 + (u % 64)>>
      upTo[i \in 0..n] == IF i = 0 THEN <<>> ELSE upTo[i - 1] \o bytes(i)
  IN  upTo[n]

\* TextDecoder.decode of well-formed UTF-8 of up to three bytes a character:
\* a byte order mark at the start is dropped
RECURSIVE Utf8Units(_)
Utf8Units(bytes) ==
  IF bytes = <<>> THEN <<>>
  ELSE IF bytes[1] < 128 THEN <<bytes[1]>> \o Utf8Units(SubSeq(bytes, 2, Len(bytes)))
  ELSE IF bytes[1] < 224
       THEN <<(bytes[1] - 192) * 64 + (bytes[2] - 128)>> \o Utf8Units(SubSeq(bytes, 3, Len(bytes)))
       ELSE <<(bytes[1] - 224) * 4096 + (bytes[2] - 128) * 64 + (bytes[3] - 128)>>
            \o Utf8Units(SubSeq(bytes, 4, Len(bytes)))

Utf8Decode(bytes) ==
  IF Len(bytes) >= 3 /\ SubSeq(bytes, 1, 3) = <<239, 187, 191>>
  THEN Utf8Units(SubSeq(bytes, 4, Len(bytes)))
  ELSE Utf8Units(bytes)

\* the key HMAC works with: a key longer than a block is hashed, a shorter
\* one is filled up with zero bytes to a block
HmacKey(bytes) ==
  IF Len(bytes) > HmacBlock THEN <<"SHA-256", bytes>> ELSE PadEnd(bytes, HmacBlock, 0)

\* deriveKey: importKey of the encoded passphrase, PBKDF2 with HMAC-SHA-256
DeriveKey(passphrase, salt) == HmacKey(Utf8Encode(passphrase)) \o salt

RECURSIVE SumOf(_)
SumOf(bytes) == IF bytes = <<>> THEN 0 ELSE bytes[1] + SumOf(SubSeq(bytes, 2, Len(bytes)))

KeyStream(key, iv) == (SumOf(key) + SumOf(iv)) % 256

\* crypto.subtle.encrypt with AES-GCM: the enciphered bytes, then the tag
AesGcmEncrypt(key, iv, plaintext) ==
  LET pad == KeyStream(key, iv)
  IN  [i \in DOMAIN plaintext |-> (plaintext[i] + pad) % 256] \o key \o iv

\* crypto.subtle.decrypt with AES-GCM: throws unless the tag is the one of key and iv
AesGcmDecrypt(key, iv, ciphertext) ==
  LET tag == key \o iv
      n == Len(ciphertext) - Len(tag)
      pad == KeyStream(key, iv)
  IN  IF n < 0 \/ SubSeq(ciphertext, n + 1, Len(ciphertext)) # tag THEN Thrown
      ELSE Returned([i \in 1..n |-> (ciphertext[i] + 256 - pad) % 256])

\* encryptPrivateKey, with the salt and the iv that getRandomValues gives
EncryptPrivateKey(privateKey, passphrase, salt, iv) ==
  IF Len(passphrase) < MinPassphrase THEN Thrown
  ELSE LET key == DeriveKey(passphrase, salt)
           ciphertext == AesGcmEncrypt(key, iv, Utf8Encode(privateKey))
       IN  Returned([salt |-> Btoa(salt), iv |-> Btoa(iv), ciphertext |-> Btoa(ciphertext)])

\* decryptPrivateKey: whatever is thrown becomes the one error
\* 'Failed to decrypt: Invalid passphrase or corrupted data'
DecryptPrivateKey(encrypted, passphrase) ==
  LET salt == Atob(encrypted.salt)
      iv == Atob(encrypted.iv)
      ciphertext == Atob(encrypted.ciphertext)
  IN  IF ~salt.ok \/ ~iv.ok \/ ~ciphertext.ok THEN Thrown
      ELSE LET plaintext == AesGcmDecrypt(DeriveKey(passphrase, salt.bytes), iv.bytes,
                                          ciphertext.bytes)
           IN  IF ~plaintext.ok THEN Thrown ELSE Returned(Utf8Decode(plaintext.value))

\* the passphrases: runs of a and of b around the minimum length, with zero
\* characters after them, with a letter of two bytes, with a lone surrogate
MaxPassphrase == 9
Passphrases ==
  {Repeat(c, n) \o end : c \in {97, 98}, n \in (MinPassphrase - 1)..MaxPassphrase,
                          end \in {<<>>, <<0>>}}
  \cup {<<u>> \o Repeat(97, MinPassphrase - 1) : u \in {233, 55296, 55297}}
  \cup {<<>>}

\* the private keys: 0xa1, AA=, sixty-four f
PrivateKeys == {<<48, 120, 97, 49>>, <<65, 65, 61>>, Repeat(102, 2 * KeyLength)}

Salts == {Repeat(b, SaltBytes) : b \in {0, 255}}
Ivs == {Repeat(b, IvBytes) : b \in {1, 254}}

\* encryptPrivateKey, then decryptPrivateKey of its result with the same and
\* with another passphrase
EncryptDecrypt(privateKey, passphrase, other, salt, iv) ==
  /\ ~mDone
  /\ mApi' = [privateKey |-> privateKey, passphrase |-> passphrase, other |-> other,
              salt |-> salt, iv |-> iv]
  /\ LET encrypted == EncryptPrivateKey(privateKey, passphrase, salt, iv)
     IN  mResult' = IF ~encrypted.ok THEN [encrypted |-> Thrown, same |-> Thrown, other |-> Thrown]
                    ELSE [encrypted |-> encrypted,
                          same |-> DecryptPrivateKey(encrypted.value, passphrase),
                          other |-> DecryptPrivateKey(encrypted.value, other)]
  /\ mDone' = TRUE
  /\ UNCHANGED <<mStored, mNow>>
  /\ UNCHANGED notMerge

EncryptNext ==
  \E privateKey \in PrivateKeys, passphrase \in Passphrases, other \in Passphrases,
     salt \in Salts, iv \in Ivs :
    EncryptDecrypt(privateKey, passphrase, other, salt, iv)

(***************************************************************************)
(* Specifications                                                          *)
(***************************************************************************)
\* the state after the page has loaded: no vault, an empty nonceStates Map, an empty
\* cache, WalletView mounted with its first fetchTransactions under way
Init ==
  /\ vault = NoAddr
  /\ wallet = NoAddr
  /\ nonceStates = [a \in Addrs |-> NoObj]
  /\ heap = [t \in Tasks |-> FreshNonceState]
  /\ task = [t \in Tasks |-> IdleTask]
  /\ reserveSince = [a \in Addrs |-> FALSE]
  /\ lastCommit = [a \in Addrs |-> Null]
  /\ mStored = <<>>
  /\ mApi = <<>>
  /\ mNow = 0
  /\ mResult = <<>>
  /\ mDone = FALSE
  /\ clock = 1
  /\ cache = <<>>
  /\ remoteTx = [h \in LedgerHashes |-> [st |-> "none", timestamp |-> 0, epoch |-> Null, nonce |-> 0]]
  /\ route = "home"
  /\ sending = NoTx
  /\ wvFetches = {<<>>}
  /\ ttFetches = {}
  /\ displayed = <<>>
  /\ timers = {}
  /\ checks = {}
  /\ everConfirmed = {}
  /\ seenConfirmed = {}
  /\ hs = IdleSend
  /\ chains = [c \in ChainIds |-> FreeChain]
  /\ pollingRef = [h \in LedgerHashes |-> NoChain]
  /\ interval = Null
  /\ pollCalls = [h \in LedgerHashes |-> 0]
  /\ session = NoSession
  /\ decrypted = [a \in Addrs |-> NoAddr]
  /\ dateNow = 0
  /\ showUnlock = FALSE
  /\ otherCaches = {}

\* the wallet has been imported into a browser that has no cache of it: the
\* remote ledger holds the transaction a, sent from elsewhere
ImportedInit ==
  /\ vault = NoAddr
  /\ wallet = NoAddr
  /\ nonceStates = [a \in Addrs |-> NoObj]
  /\ heap = [t \in Tasks |-> FreshNonceState]
  /\ task = [t \in Tasks |-> IdleTask]
  /\ reserveSince = [a \in Addrs |-> FALSE]
  /\ lastCommit = [a \in Addrs |-> Null]
  /\ mStored = <<>>
  /\ mApi = <<>>
  /\ mNow = 0
  /\ mResult = <<>>
  /\ mDone = FALSE
  /\ clock = 1
  /\ cache = <<>>
  /\ remoteTx = [h \in LedgerHashes |->
                   IF h = "a"
                   THEN [st |-> "confirmed", timestamp |-> 1, epoch |-> 1, nonce |-> 1]
                   ELSE [st |-> "none", timestamp |-> 0, epoch |-> Null, nonce |-> 0]]
  /\ route = "home"
  /\ sending = NoTx
  /\ wvFetches = {<<>>}
  /\ ttFetches = {}
  /\ displayed = <<>>
  /\ timers = {}
  /\ checks = {}
  /\ everConfirmed = {}
  /\ seenConfirmed = {}
  /\ hs = IdleSend
  /\ chains = [c \in ChainIds |-> FreeChain]
  /\ pollingRef = [h \in LedgerHashes |-> NoChain]
  /\ interval = Null
  /\ pollCalls = [h \in LedgerHashes |-> 0]
  /\ session = NoSession
  /\ decrypted = [a \in Addrs |-> NoAddr]
  /\ dateNow = 0
  /\ showUnlock = FALSE
  /\ otherCaches = {}

\* mergeTransactions about to be called on any stored list and API result within the bounds
MergeInit ==
  /\ mStored \in StoredLists
  /\ mApi \in ApiLists
  /\ mNow = MaxTs + 1
  /\ mResult = <<>>
  /\ mDone = FALSE
  /\ vault = NoAddr
  /\ wallet = NoAddr
  /\ nonceStates = [a \in Addrs |-> NoObj]
  /\ heap = [t \in Tasks |-> FreshNonceState]
  /\ task = [t \in Tasks |-> IdleTask]
  /\ reserveSince = [a \in Addrs |-> FALSE]
  /\ lastCommit = [a \in Addrs |-> Null]
  /\ clock = 1
  /\ cache = <<>>
  /\ remoteTx = [h \in LedgerHashes |-> [st |-> "none", timestamp |-> 0, epoch |-> Null, nonce |-> 0]]
  /\ route = "home"
  /\ sending = NoTx
  /\ wvFetches = {<<>>}
  /\ ttFetches = {}
  /\ displayed = <<>>
  /\ timers = {}
  /\ checks = {}
  /\ everConfirmed = {}
  /\ seenConfirmed = {}
  /\ hs = IdleSend
  /\ chains = [c \in ChainIds |-> FreeChain]
  /\ pollingRef = [h \in LedgerHashes |-> NoChain]
  /\ interval = Null
  /\ pollCalls = [h \in LedgerHashes |-> 0]
  /\ session = NoSession
  /\ decrypted = [a \in Addrs |-> NoAddr]
  /\ dateNow = 0
  /\ showUnlock = FALSE
  /\ otherCaches = {}

\* mergeTransactions about to be called on a cache of pending sends (whose priority
\* upsertTransaction has normalized) and an API result that may omit the priority
MergePriorityInit ==
  /\ mStored \in PriorityStoredLists
  /\ mApi \in PriorityApiLists
  /\ mNow = MaxTs + 1
  /\ mResult = <<>>
  /\ mDone = FALSE
  /\ vault = NoAddr
  /\ wallet = NoAddr
  /\ nonceStates = [a \in Addrs |-> NoObj]
  /\ heap = [t \in Tasks |-> FreshNonceState]
  /\ task = [t \in Tasks |-> IdleTask]
  /\ reserveSince = [a \in Addrs |-> FALSE]
  /\ lastCommit = [a \in Addrs |-> Null]
  /\ clock = 1
  /\ cache = <<>>
  /\ remoteTx = [h \in LedgerHashes |-> [st |-> "none", timestamp |-> 0, epoch |-> Null, nonce |-> 0]]
  /\ route = "home"
  /\ sending = NoTx
  /\ wvFetches = {<<>>}
  /\ ttFetches = {}
  /\ displayed = <<>>
  /\ timers = {}
  /\ checks = {}
  /\ everConfirmed = {}
  /\ seenConfirmed = {}
  /\ hs = IdleSend
  /\ chains = [c \in ChainIds |-> FreeChain]
  /\ pollingRef = [h \in LedgerHashes |-> NoChain]
  /\ interval = Null
  /\ pollCalls = [h \in LedgerHashes |-> 0]
  /\ session = NoSession
  /\ decrypted = [a \in Addrs |-> NoAddr]
  /\ dateNow = 0
  /\ showUnlock = FALSE
  /\ otherCaches = {}

\* upsertTransaction / updateTransactionStatus about to be called on a cache
StorageInit ==
  /\ mStored \in UpsertLists
  /\ mApi = <<>>
  /\ mNow = MaxTs + 1
  /\ mResult = <<>>
  /\ mDone = FALSE
  /\ vault = NoAddr
  /\ wallet = NoAddr
  /\ nonceStates = [a \in Addrs |-> NoObj]
  /\ heap = [t \in Tasks |-> FreshNonceState]
  /\ task = [t \in Tasks |-> IdleTask]
  /\ reserveSince = [a \in Addrs |-> FALSE]
  /\ lastCommit = [a \in Addrs |-> Null]
  /\ clock = 1
  /\ cache = <<>>
  /\ remoteTx = [h \in LedgerHashes |-> [st |-> "none", timestamp |-> 0, epoch |-> Null, nonce |-> 0]]
  /\ route = "home"
  /\ sending = NoTx
  /\ wvFetches = {<<>>}
  /\ ttFetches = {}
  /\ displayed = <<>>
  /\ timers = {}
  /\ checks = {}
  /\ everConfirmed = {}
  /\ seenConfirmed = {}
  /\ hs = IdleSend
  /\ chains = [c \in ChainIds |-> FreeChain]
  /\ pollingRef = [h \in LedgerHashes |-> NoChain]
  /\ interval = Null
  /\ pollCalls = [h \in LedgerHashes |-> 0]
  /\ session = NoSession
  /\ decrypted = [a \in Addrs |-> NoAddr]
  /\ dateNow = 0
  /\ showUnlock = FALSE
  /\ otherCaches = {}

\* the wallet oct1 is unlocked and WalletView shows the send form
SendInit ==
  /\ vault = "oct1"
  /\ wallet = "oct1"
  /\ nonceStates = [a \in Addrs |-> NoObj]
  /\ heap = [t \in Tasks |-> FreshNonceState]
  /\ task = [t \in Tasks |-> IdleTask]
  /\ reserveSince = [a \in Addrs |-> FALSE]
  /\ lastCommit = [a \in Addrs |-> Null]
  /\ mStored = <<>>
  /\ mApi = <<>>
  /\ mNow = 0
  /\ mResult = <<>>
  /\ mDone = FALSE
  /\ clock = 1
  /\ cache = <<>>
  /\ remoteTx = [h \in LedgerHashes |-> [st |-> "none", timestamp |-> 0, epoch |-> Null, nonce |-> 0]]
  /\ route = "home"
  /\ sending = NoTx
  /\ wvFetches = {}
  /\ ttFetches = {}
  /\ displayed = <<>>
  /\ timers = {}
  /\ checks = {}
  /\ everConfirmed = {}
  /\ seenConfirmed = {}
  /\ hs = IdleSend
  /\ chains = [c \in ChainIds |-> FreeChain]
  /\ pollingRef = [h \in LedgerHashes |-> NoChain]
  /\ interval = Null
  /\ pollCalls = [h \in LedgerHashes |-> 0]
  /\ session = [address |-> "oct1", expiry |-> SessionDuration]
  /\ decrypted = [a \in Addrs |-> IF a = "oct1" THEN a ELSE NoAddr]
  /\ dateNow = 0
  /\ showUnlock = FALSE
  /\ otherCaches = {}

\* the wallet data under sends, logout and import
SpecLogout == SendInit /\ [][LogoutNext]_vars

\* the NonceCoordinator under the send form, lock, unlock, logout and import
SpecNonce == Init /\ [][NonceNext]_vars

\* mergeTransactions applied once to every input within the bounds
MergeNext == Merge

SpecMerge == MergeInit /\ [][MergeNext]_vars

\* the cache of an address from empty under upserts, status updates and saved merges
SpecStore == Init /\ [][StoreNext]_vars

RemergeNext ==
  \/ Merge
  \/ \E elapsed \in 0..MaxElapsed : MergeAgain(elapsed)

\* mergeTransactions applied to its own result and the same API result
SpecRemerge == MergeInit /\ [][RemergeNext]_vars

UpsertNext == \E tx \in UpsertTxs : Upsert(tx)

\* upsertTransaction applied once to every cache and transaction within the bounds
SpecUpsert == StorageInit /\ [][UpsertNext]_vars

UpdateStatusNext ==
  \E txHash \in UpsertHashes, status \in UpdateStatuses, epoch \in UpdateEpochs :
     UpdateStatus(txHash, status, epoch)

\* updateTransactionStatus applied once to every cache, hash, status and epoch
\* within the bounds
SpecUpdateStatus == StorageInit /\ [][UpdateStatusNext]_vars

\* mergeTransactions applied once to every cache and API result that differ in priority
SpecMergePriority == MergePriorityInit /\ [][MergeNext]_vars

\* the wallet oct1 is unlocked, has sent the transaction a, which the node has accepted,
\* and TransactionsTab has just mounted: it shows the stored list, has called
\* fetchAndMergeTransactions and has set the refresh interval
PollInit ==
  /\ vault = "oct1"
  /\ wallet = "oct1"
  /\ nonceStates = [a \in Addrs |-> NoObj]
  /\ heap = [t \in Tasks |-> FreshNonceState]
  /\ task = [t \in Tasks |-> IdleTask]
  /\ reserveSince = [a \in Addrs |-> FALSE]
  /\ lastCommit = [a \in Addrs |-> Null]
  /\ mStored = <<>>
  /\ mApi = <<>>
  /\ mNow = 0
  /\ mResult = <<>>
  /\ mDone = FALSE
  /\ clock = 0
  /\ cache = SaveTransactions(<<>>,
               UpsertTransaction(<<>>,
                 [hash |-> "a", timestamp |-> 0, status |-> "pending", priority |-> "normal",
                  createdAt |-> 0, lastCheckedAt |-> 0, epoch |-> Null, nonce |-> 1], 0))
  /\ remoteTx = [h \in LedgerHashes |->
                   IF h = "a" THEN [st |-> "pending", timestamp |-> 0, epoch |-> Null, nonce |-> 1]
                   ELSE [st |-> "none", timestamp |-> 0, epoch |-> Null, nonce |-> 0]]
  /\ route = "txs"
  /\ sending = NoTx
  /\ wvFetches = {}
  /\ ttFetches = {cache}
  /\ displayed = cache
  /\ timers = {}
  /\ checks = {}
  /\ everConfirmed = {}
  /\ seenConfirmed = {}
  /\ hs = IdleSend
  /\ chains = [c \in ChainIds |-> FreeChain]
  /\ pollingRef = [h \in LedgerHashes |-> NoChain]
  /\ interval = RefreshPeriod
  /\ pollCalls = [h \in LedgerHashes |-> 0]
  /\ session = [address |-> "oct1", expiry |-> SessionDuration]
  /\ decrypted = [a \in Addrs |-> IF a = "oct1" THEN a ELSE NoAddr]
  /\ dateNow = 0
  /\ showUnlock = FALSE
  /\ otherCaches = {}

\* the status poll of the transactions view over time
SpecPoll == PollInit /\ [][PollNext]_vars

\* the status poll of a transaction that never confirms
SpecPending == PollInit /\ [][PendingNext]_vars

\* one wallet's send form and handleSend with its retries
SpecSend == SendInit /\ [][SendNext]_vars

\* the same, with every callback and every action of the user taking place
\* in the end
SpecSendFair == SpecSend /\ WF_vars(SendNext)

SpecSendDirect == SendInit /\ [][SendDirectNext]_vars

\* validatePrivateKey on every key within the bounds
SpecValidateKey == Init /\ [][ValidateKeyNext]_vars

\* amountToMicroOCT on every amount within the bounds
SpecAmount == Init /\ [][ConvertAmountNext]_vars

\* the payload of a send for every amount within the bounds
SpecTxData == Init /\ [][TxDataNext]_vars

\* encryptPrivateKey and decryptPrivateKey on every key and passphrase within the bounds
SpecEncrypt == Init /\ [][EncryptNext]_vars

\* one tab of the application under imports, unlocks, locks, logouts, reloads,
\* the passing of time and the writes of other tabs to localStorage
SpecSession == Init /\ [][SessionNext]_vars

\* the transaction cache under sends, refreshes of both views and status polls
SpecLedger == Init /\ [][LedgerNext]_vars

\* the same views over a ledger that holds a transaction the cache has never seen
SpecImported == ImportedInit /\ [][LedgerNext]_vars

(***************************************************************************)
(* Claims about the NonceCoordinator, checked under SpecNonce              *)
(***************************************************************************)
\* the currentNonce the address tracks: -1 when no NonceState exists
CurOf(ns, h, a) == IF ns[a] = NoObj THEN -1 ELSE h[ns[a]].currentNonce

\* the address is Idle: no NonceState, or one that is unlocked with no pendingNonce
AddrIdle(ns, h, a) ==
  ns[a] = NoObj \/ (~h[ns[a]].locked /\ h[ns[a]].pendingNonce = Null)

\* reservations of the address made since its last clear and not yet released
Outstanding(a) ==
  {t \in Tasks : task[t].addr = a /\ task[t].pc \in {"fetching", "granted"} /\ task[t].stale = "no"}

\* C1: for every address at most one reservation (granted, or awaiting its
\* remote fetch) made since the last clear is outstanding at any moment: a
\* reserve called while one is outstanding is rejected and handed no nonce.
C1_AtMostOneOutstanding ==
  \A a \in Addrs : Cardinality(Outstanding(a)) <= 1

\* C5: a successful reserve returns max(remoteNonce, currentNonce of the
\* address) + 1 (currentNonce = -1 when the address has no state) and leaves
\* the address locked with pendingNonce equal to the returned value.
C5_ReserveReturnsMaxPlusOne ==
  [][\A t \in Tasks, n \in 0..MaxRemote :
       GetNextNonceResolve(t, n) =>
         LET a == task[t].addr
         IN  /\ task'[t].nonce = Max(n, CurOf(nonceStates, heap, a)) + 1
             /\ nonceStates'[a] # NoObj
             /\ heap'[nonceStates'[a]].locked
             /\ heap'[nonceStates'[a]].pendingNonce = task'[t].nonce]_vars

\* C6: of two reservations of one address made with no clear in between and
\* both released with committed=true, the later got a strictly greater nonce,
\* whatever (stale) values the remote reports.
C6_CommittedNoncesIncrease ==
  [][\A t \in Tasks :
       (ReleaseNonce(t, TRUE) /\ task[t].stale = "no") =>
         task[t].nonce > lastCommit[task[t].addr]]_vars

\* C7: release leaves the address Idle; committed=true sets currentNonce to
\* the nonce that was reserved, committed=false leaves currentNonce unchanged,
\* so a reserve under the same remote view re-issues the nonce just released.
C7_ReleaseEffect ==
  [][\A t \in Tasks, c \in BOOLEAN :
       ReleaseNonce(t, c) =>
         LET a == task[t].addr
             o == nonceStates[a]
         IN  /\ nonceStates'[a] = o
             /\ AddrIdle(nonceStates', heap', a)
             /\ o # NoObj =>
                  /\ (c /\ heap[o].pendingNonce # Null) =>
                        heap'[o].currentNonce = heap[o].pendingNonce
                  /\ ~c => heap'[o].currentNonce = heap[o].currentNonce
                  /\ (~c /\ heap[o].pendingNonce # Null) =>
                        \A n \in 0..MaxRemote :
                           n <= heap[o].currentNonce =>
                             Max(n, heap'[o].currentNonce) + 1 = heap[o].pendingNonce
       ]_vars

\* C7 witness: a committed release has acted: the address is Idle and tracks
\* the nonce that was reserved and committed.
C7_Witness ==
  \E a \in Addrs :
     /\ lastCommit[a] # Null
     /\ nonceStates[a] # NoObj
     /\ AddrIdle(nonceStates, heap, a)
     /\ heap[nonceStates[a]].currentNonce = lastCommit[a]

\* C8: when the remote fetch of a reserve fails, the caller is handed no
\* nonce, the address is Idle again and its currentNonce is what it was.
C8_FetchFailureRevertsToIdle ==
  [][\A t \in Tasks :
       GetNextNonceReject(t) =>
         LET a == task[t].addr
         IN  /\ task'[t].pc # "granted"
             /\ task'[t].nonce = Null
             /\ AddrIdle(nonceStates', heap', a)
             /\ CurOf(nonceStates', heap', a) = CurOf(nonceStates, heap, a)]_vars

\* C9: after clear(address) / clearAll() the address has no NonceState until
\* a new reserve is called, and a reserve whose fetch was in flight at the
\* clear is not handed a nonce next to a reservation granted after the clear.
C9_ClearCancelsReservations ==
  /\ \A a \in Addrs : nonceStates[a] # NoObj => reserveSince[a]
  /\ \A t, u \in Tasks :
        ~ /\ task[t].stale = "fetching" /\ task[t].pc = "granted"
          /\ task[u].stale = "no" /\ task[u].pc = "granted"
          /\ task[t].addr = task[u].addr

\* C10: in every NonceState pendingNonce is non-null only while locked.
C10_PendingOnlyWhileLocked ==
  \A a \in Addrs :
     nonceStates[a] # NoObj =>
       (heap[nonceStates[a]].pendingNonce # Null => heap[nonceStates[a]].locked)

\* C11: while an address keeps a NonceState (from its creation to its removal
\* by clear / clearAll) no reserve, failed reserve or release makes the
\* currentNonce of the address smaller.
C11_CurrentNonceNeverDecreases ==
  [][\A a \in Addrs :
       (nonceStates[a] # NoObj /\ nonceStates'[a] # NoObj) =>
         CurOf(nonceStates', heap', a) >= CurOf(nonceStates, heap, a)]_vars

(***************************************************************************)
(* Claims about the LedgerReconciler                                       *)
(***************************************************************************)
\* C2: merge never regresses a local record the remote result omits: it is
\* in the output with the status it had (confirmed, pending or failed)
\* unless the truncation to 50 entries cut it, and no output entry for its
\* hash carries another status.
C2_MergeKeepsOmittedStatus ==
  mDone =>
    \A i \in DOMAIN mStored :
       ~HasHash(mApi, mStored[i].hash) =>
         /\ \A j \in DOMAIN mResult :
               mResult[j].hash = mStored[i].hash => mResult[j].status = mStored[i].status
         /\ mStored[i].status \in {"confirmed", "pending", "failed"} =>
               \/ \E j \in DOMAIN mResult :
                     /\ mResult[j].hash = mStored[i].hash
                     /\ mResult[j].status = mStored[i].status
               \/ Len(mResult) = CacheCap

\* C2 witness: a confirmed local record the remote (non-empty) result omits
\* has been merged and is in the output.
C2_Witness ==
  /\ mDone
  /\ mApi # <<>>
  /\ \E i \in DOMAIN mStored :
        /\ mStored[i].status = "confirmed"
        /\ ~HasHash(mApi, mStored[i].hash)
        /\ HasHash(mResult, mStored[i].hash)

\* C3: once the persisted cache has held a transaction as confirmed, no later
\* persisted state of that cache holds the same hash as pending.
C3_PersistedConfirmedNeverPending ==
  \A h \in everConfirmed : StatusIn(cache, h) # "pending"

\* C4: once the transactions view has shown a hash as confirmed, every later
\* list it shows that contains the hash shows it confirmed.
C4_DisplayedConfirmedStays ==
  \A h \in seenConfirmed : HasHash(displayed, h) => StatusIn(displayed, h) = "confirmed"

\* hashes of the deduplicated union of the two arguments of mergeTransactions
UnionHashes == {mStored[i].hash : i \in DOMAIN mStored} \cup {mApi[i].hash : i \in DOMAIN mApi}

\* C18: every transaction of the remote result is in the output of merge with
\* status confirmed, whatever the status of a local record with its hash,
\* unless the truncation to 50 entries cut it; no output entry for its hash
\* has another status.
C18_RemoteResultsConfirmed ==
  mDone =>
    \A i \in DOMAIN mApi :
       /\ \A j \in DOMAIN mResult :
             mResult[j].hash = mApi[i].hash => mResult[j].status = "confirmed"
       /\ \/ \E j \in DOMAIN mResult : mResult[j].hash = mApi[i].hash
          \/ Len(mResult) = CacheCap

\* C18 witness: a remote result whose hash the local cache holds as pending,
\* failed or without status has been merged and is confirmed in the output.
C18_Witness ==
  /\ mDone
  /\ \E i \in DOMAIN mApi, k \in DOMAIN mStored :
        /\ mStored[k].hash = mApi[i].hash
        /\ mStored[k].status # "confirmed"
        /\ StatusIn(mResult, mApi[i].hash) = "confirmed"

C19_MergeKeepsLocalPriority ==
  mDone =>
    \A i \in DOMAIN mApi, k \in DOMAIN mStored :
       (mStored[k].hash = mApi[i].hash /\ HasHash(mResult, mApi[i].hash)) =>
         LET merged == MapGet(mResult, mApi[i].hash)
         IN  /\ merged.createdAt = mStored[k].createdAt
             /\ (\A j \in DOMAIN mApi :
                    mApi[j].hash = mApi[i].hash => mApi[j].priority = "none")
                  => merged.priority = mStored[k].priority

\* C17: a successful send that used the reserved nonce N leaves a pending
\* entry with the returned hash and nonce N in the cache and a status poll
\* started for it, and a status check that finds the transaction included
\* in an epoch makes the entry confirmed with that epoch.
C17_SendThenPollConfirms ==
  [][/\ HandleSendDone =>
          /\ StatusIn(cache', sending.hash) = "pending"
          /\ MapGet(cache', sending.hash).nonce = sending.nonce
          /\ sending.hash \in timers' \cup checks'
     /\ \A h \in LedgerHashes :
          (StatusAnswered(h) /\ remoteTx[h].st = "confirmed" /\ HasHash(cache, h)) =>
             /\ StatusIn(cache', h) = "confirmed"
             /\ MapGet(cache', h).epoch = remoteTx[h].epoch]_vars

(***************************************************************************)
(* Claims about the send path, checked under SpecSend                      *)
(***************************************************************************)
\* C12: one send of the user submits the transaction at most twice (the send
\* and one resubmission with a fresh nonce after a nonce-related rejection),
\* and a failure of the resubmission, nonce-related or not, is surfaced to
\* the caller instead of being retried.
C12_AtMostOneRetry ==
  [][/\ hs'.submits <= 2
     /\ \A nonceRelated \in BOOLEAN :
          (SendTxRejected(nonceRelated) /\ hs.submits >= 2) => hs'.pc = "thrown"]_vars

(***************************************************************************)
(* Claims about the status poll, checked under SpecPending and SpecPoll    *)
(***************************************************************************)
\* the poll chains of a hash: scheduled timers and checks awaiting their answer
ChainsOf(ch, h) == {c \in ChainIds : ch[c].st # "free" /\ ch[c].hash = h}

\* C13: the first check of a pending transaction is scheduled 5 s after polling
\* starts and each further one 10 s after the answer to the previous one, a
\* timer fires when it is due, the chain gives up at the 30th attempt leaving
\* the record pending and no timer, and a transaction that never confirms is
\* checked at most 30 times.
C13_PollSchedule ==
  [][/\ \A c \in ChainIds :
          (chains'[c].st = "timer" /\ chains'[c] # chains[c]) =>
             IF chains[c].st = "check"
             THEN /\ chains'[c].due = clock + RetryDelay
                  /\ chains'[c].attempt = chains[c].attempt + 1
             ELSE /\ chains'[c].due = clock + FirstDelay
                  /\ chains'[c].attempt = 0
     /\ \A c \in ChainIds :
          PollTimerFires(c) =>
             /\ clock = chains[c].due
             /\ chains[c].attempt >= MaxAttempts =>
                   /\ chains'[c] = FreeChain
                   /\ StatusIn(cache', chains[c].hash) = "pending"
     /\ \A h \in LedgerHashes : pollCalls'[h] <= MaxAttempts]_vars

\* C14: an answer of included or finalized sets the cached record to confirmed
\* with the reported epoch and leaves no check scheduled for the hash; an
\* answer of not_found or pending (which is also what a transport error
\* becomes) leaves the record pending and exactly one check scheduled.
C14_StatusCheckEffect ==
  [][\A c \in ChainIds, response \in StatusResponses :
       PollStatusAnswered(c, response) =>
         LET h == chains[c].hash
         IN  IF GetTransactionStatus(response).status \in {"finalized", "included"}
             THEN /\ StatusIn(cache', h) = "confirmed"
                  /\ MapGet(cache', h).epoch = response.epoch
                  /\ ChainsOf(chains', h) = {}
             ELSE /\ StatusIn(cache', h) = "pending"
                  /\ cache' = cache
                  /\ ChainsOf(chains', h) = {c}
                  /\ chains'[c].st = "timer"]_vars

\* C15: at any time at most one poll chain exists per transaction hash.
C15_OneChainPerHash ==
  \A h \in LedgerHashes : Cardinality(ChainsOf(chains, h)) <= 1

\* C16: once the view is unmounted by lock or logout no poll timer remains,
\* no status check is made and the transaction cache is not written.
C16_NoPollAfterUnmount ==
  [][route' = "locked" =>
       /\ \A c \in ChainIds : chains'[c].st # "timer"
       /\ route = "locked" => (pollCalls' = pollCalls /\ cache' = cache)]_vars

(***************************************************************************)
(* Claims about txStorage as functions, checked under SpecRemerge          *)
(***************************************************************************)
\* a list without the times of the last check
Unchecked(txs) == [i \in DOMAIN txs |-> [txs[i] EXCEPT !.lastCheckedAt = 0]]

\* C21 as stated: merging the result of a merge with the same remote list
\* again gives the same list: same records, same field values, same order.
C21_MergeIdempotent ==
  [][\A elapsed \in 0..MaxElapsed : MergeAgain(elapsed) => mResult' = mResult]_vars

\* C21 as amended: merging the result of a merge with the same remote list
\* again gives the same records in the same order with the same values of
\* every field other than lastCheckedAt, which is the time of the call; two
\* merges at the same time give the same list.
C21_MergeIdempotentButChecked ==
  [][\A elapsed \in 0..MaxElapsed :
       MergeAgain(elapsed) =>
         /\ Unchecked(mResult') = Unchecked(mResult)
         /\ elapsed = 0 => mResult' = mResult]_vars

\* a second merge, later than the first, has refreshed lastCheckedAt of a record
C21_Witness ==
  /\ mDone
  /\ mNow > MaxTs + 1
  /\ \E i \in DOMAIN mResult :
       /\ mResult[i].lastCheckedAt = mNow
       /\ mStored[i].hash = mResult[i].hash
       /\ mStored[i].lastCheckedAt < mNow

(***************************************************************************)
(* Claims about the persisted cache, checked under SpecStore               *)
(***************************************************************************)
\* C22: the persisted cache has at most 50 entries and is ordered by
\* timestamp descending, an entry that an upsert drops is not newer than any
\* entry it keeps, and once 60 transactions with distinct hashes have been
\* upserted the cache holds exactly the 50 newest of them.
C22_CacheCappedAndSorted ==
  [][/\ Len(cache') <= CacheCap
     /\ IsSortedDesc(cache')
     /\ wvFetches' = wvFetches =>
          /\ Len(cache') >= Min(Len(cache), CacheCap)
          /\ \A i \in DOMAIN cache :
               ~HasHash(cache', cache[i].hash) =>
                  \A j \in DOMAIN cache' : cache'[j].timestamp >= cache[i].timestamp
     /\ (/\ SentHashes(cache') # {}
         /\ NewestHash(cache') = FirstHash + MaxUpserts - 1
         /\ ~HasHash(cache', ReceivedHash)) =>
           /\ Len(cache') = CacheCap
           /\ \A i \in 1..CacheCap : cache'[i].hash = FirstHash + MaxUpserts - i]_vars
C22_Witness ==
  /\ SentHashes(cache) # {}
  /\ NewestHash(cache) = FirstHash + MaxUpserts - 1
  /\ ~HasHash(cache, FirstHash)
  /\ ~HasHash(cache, ReceivedHash)
  /\ Len(cache) = CacheCap

(***************************************************************************)
(* Claims about upsertTransaction and updateTransactionStatus              *)
(***************************************************************************)
\* the records of a list that do not carry the hash h, in their order
Others(txs, h) == SelectSeq(txs, LAMBDA t : t.hash # h)

IsPrefix(a, b) == Len(a) <= Len(b) /\ a = SubSeq(b, 1, Len(a))

\* what upsertTransaction(tx) has done to the record with tx.hash and to the others
UpsertedRecord(tx) ==
  LET new == MapGet(mResult, tx.hash)
  IN  /\ HasHash(mStored, tx.hash) => new.createdAt = MapGet(mStored, tx.hash).createdAt
      /\ new.priority = (IF tx.priority \in {"express", "EXPRESS"} THEN "express" ELSE "normal")
      /\ new.timestamp = tx.timestamp
      /\ new.status = tx.status

OthersKept(tx) ==
  /\ IsPrefix(Others(mResult, tx.hash), Others(mStored, tx.hash))
  /\ Len(Others(mResult, tx.hash)) < Len(Others(mStored, tx.hash)) => Len(mResult) = CacheCap

C24_UpdateStatusFrame ==
  mDone =>
    LET a == mApi[1]
    IN  /\ Len(mResult) = Len(mStored)
        /\ \A i \in DOMAIN mStored :
              IF mStored[i].hash = a.hash
              THEN /\ mResult[i].status = a.status
                   /\ mResult[i].epoch = (IF a.epoch = Null THEN mStored[i].epoch ELSE a.epoch)
                   /\ [mResult[i] EXCEPT !.status = mStored[i].status,
                                         !.epoch = mStored[i].epoch,
                                         !.lastCheckedAt = mStored[i].lastCheckedAt] = mStored[i]
              ELSE mResult[i] = mStored[i]
        /\ ~HasHash(mStored, a.hash) => mResult = mStored

\* a confirmed record was set to failed without an epoch and kept its epoch
C24_Witness ==
  /\ mDone
  /\ HasHash(mStored, mApi[1].hash)
  /\ Len(mStored) > 1
  /\ mApi[1].epoch = Null
  /\ MapGet(mStored, mApi[1].hash).status = "confirmed"
  /\ MapGet(mResult, mApi[1].hash).status = "failed"
  /\ MapGet(mResult, mApi[1].hash).epoch = 1
  /\ MapGet(mResult, mApi[1].hash).lastCheckedAt = mNow

(***************************************************************************)
(* Claims about a failed history query, checked under SpecLedger           *)
(***************************************************************************)
\* the getTransactions call of the mounted view is rejected
FetchFailed == TtFetchFailed \/ (route = "home" /\ WvFetchFailed)

\* C25 as stated: when the history query fails the persisted cache is
\* unchanged, the displayed list is the local cache, and a non-empty view is
\* not replaced by an empty list.
C25_FailureShowsCache ==
  [][FetchFailed =>
       /\ cache' = cache
       /\ displayed' = cache'
       /\ displayed # <<>> => displayed' # <<>>]_vars

(***************************************************************************)
(* Claims about the unlock session, checked under SpecSession              *)
(***************************************************************************)
\* C26 as stated: isSessionValid answers true exactly when a session record
\* exists, now < expiry, and the stored vault carries the address recorded
\* in the session.
C26_SessionValidIff ==
  IsSessionValid(session, vault, dateNow)
    <=> (/\ session # NoSession
         /\ dateNow < session.expiry
         /\ vault = session.address)

\* C27 as stated: from the expiry time of its session on, the application
\* holds no unlocked wallet.
C27_ExpiredIsLocked ==
  wallet # NoAddr => (session # NoSession /\ dateNow < session.expiry)

\* C28 as stated: a decrypted-key cache entry of an address exists only
\* while an unlock session of that address exists.
C28_CacheOnlyWithSession ==
  \A a \in Addrs :
     decrypted[a] # NoAddr => (session # NoSession /\ session.address = a)

C30_LockFrame ==
  [][TtUnmount =>
       /\ decrypted'[wallet] = NoAddr
       /\ session' = NoSession
       /\ wallet' = NoAddr
       /\ vault' = vault
       /\ cache' = cache]_vars

\* the wallet has been locked: no session, no cached key, vault and cache kept
C30_Witness ==
  /\ route = "locked"
  /\ wallet = NoAddr
  /\ session = NoSession
  /\ vault # NoAddr
  /\ decrypted[vault] = NoAddr
  /\ cache # <<>>
(***************************************************************************)
(* Claims about logout, checked under SpecLogout                           *)
(***************************************************************************)

\* C31: immediately after logout there is no EncryptedVault, no transaction
\* cache for any address, no NonceState for any address, no session and no
\* decrypted-key cache entry for any address
C31_LogoutWipesAll ==
  [][HandleLogout =>
       /\ vault' = NoAddr
       /\ cache' = <<>>
       /\ otherCaches' = {}
       /\ \A a \in Addrs : nonceStates'[a] = NoObj
       /\ session' = NoSession
       /\ \A a \in Addrs : decrypted'[a] = NoAddr]_vars

\* a logout has wiped a wallet that had sent a transaction and reserved a
\* nonce, while another address had a transaction cache too
C31_Witness ==
  /\ vault = NoAddr
  /\ wallet = NoAddr
  /\ cache = <<>>
  /\ otherCaches = {}
  /\ sending = NoTx
  /\ remoteTx["a"].st # "none"
  /\ \E t \in Tasks : task[t].stale = "granted"
  /\ session = NoSession

\* C39: after logout, and until a wallet is imported again, the completion of
\* a send that was awaiting the remote's answer at the time of logout does not
\* recreate a transaction cache record for the logged-out address
C39_WipedCacheStaysWiped ==
  [][(vault = NoAddr /\ wallet = NoAddr /\ HandleSendDone) => cache' = <<>>]_vars

(***************************************************************************)
(* A claim about a send that finishes while a reconciliation is in flight, *)
(* checked under SpecLedger                                                *)
(***************************************************************************)

\* C38: a pending entry written to the cache by a successful send is still in
\* the persisted cache after the completion of a reconciliation that was in
\* flight when the send finished (every fetchTransactions whose `stored` lacks
\* the entry was): the save of the reconciliation does not overwrite the
\* cache with the merge of its stale snapshot
C38_SendSurvivesStaleMerge ==
  [][WvFetchDone =>
       \A h \in LedgerHashes : StatusIn(cache, h) = "pending" => HasHash(cache', h)]_vars

(***************************************************************************)
(* Claims about the reservation of the send form, checked under            *)
(* SpecSendFair and SpecSend                                               *)
(***************************************************************************)

\* C36: every reservation obtained by the send form is released in the end:
\* when the user cancels at the confirmation dialog, the address returns to
\* Idle, so that a later send on it can reserve again
C36_CancelReleases ==
  \A t \in Tasks :
    (task[t].pc = "cancelled") ~> AddrIdle(nonceStates, heap, wallet)

IsHexString(str) == \A i \in DOMAIN str : str[i] \in HexDigits

\* the key is the base64 text of 32 bytes, or 64 hexadecimal digits with or
\* without the prefix 0x
DecodesToKey(key) ==
  \/ IsBase64(key) /\ Len(Atob(key).bytes) = KeyLength
  \/ StartsWith0x(key) /\ Len(key) = 2 * KeyLength + 2 /\ IsHexString(SubSeq(key, 3, Len(key)))
  \/ Len(key) = 2 * KeyLength /\ IsHexString(key)

\* C35: validatePrivateKey(key) is true iff key decodes to exactly 32 raw
\* bytes as base64, as 0x-prefixed hex or as bare hex; a bare hex string of
\* 64 characters that encodes 32 bytes is accepted
C35_ValidKeyIffDecodes ==
  mDone => (mResult <=> DecodesToKey(mApi))

\* the amount is a non-negative decimal with at most 6 fractional digits:
\* digits, then possibly a point and up to 6 digits
IsDecimalAmount(amount) ==
  \E k \in 1..Len(amount) :
    /\ AllDigits(SubSeq(amount, 1, k))
    /\ \/ k = Len(amount)
       \/ /\ amount[k + 1] = "."
          /\ Len(amount) - (k + 1) <= MicroDecimals
          /\ \A i \in (k + 2)..Len(amount) : IsDigit(amount[i])

WholeOf(amount) == SubSeq(amount, 1, CHOOSE k \in 1..Len(amount) :
                     AllDigits(SubSeq(amount, 1, k)) /\ (k = Len(amount) \/ amount[k + 1] = "."))

FractionOf(amount) == SubSeq(amount, Len(WholeOf(amount)) + 2, Len(amount))

RECURSIVE NatOf(_)
NatOf(str) == IF str = <<>> THEN 0 ELSE 10 * NatOf(SubSeq(str, 1, Len(str) - 1)) + DigitOf(str[Len(str)])

\* the decimal string without leading zeros of the digits str
DecimalString(str) ==
  IF \A i \in DOMAIN str : str[i] = "0" THEN <<"0">>
  ELSE SubSeq(str, CHOOSE i \in DOMAIN str : str[i] # "0" /\ \A j \in 1..(i - 1) : str[j] = "0", Len(str))

\* negative, not a number (something else than digits with at most one point
\* among them, blanks around; NaN and Infinity are such), or more than 6
\* fractional digits
IsBadAmount(amount) ==
  LET trimmed == Trim(amount)
      points == {i \in DOMAIN trimmed : trimmed[i] = "."}
  IN  \/ trimmed # <<>> /\ trimmed[1] = "-"
      \/ \A i \in DOMAIN trimmed : ~IsDigit(trimmed[i])
      \/ \E i \in DOMAIN trimmed : ~IsDigit(trimmed[i]) /\ trimmed[i] # "."
      \/ Cardinality(points) > 1
      \/ \E i \in points : Len(trimmed) - i > MicroDecimals

\* C33: amountToMicroOCT(a) returns the decimal string of whole * 10^6 +
\* (fraction right-padded with zeros to 6 digits) for every non-negative
\* decimal string a with at most 6 fractional digits, "1000.5" giving
\* "1000500000", exactly for whole parts of any length, and fails for negative
\* input, non-numeric input, NaN, Infinity and more than 6 fractional digits
C33_AmountToMicroOCT ==
  mDone =>
    /\ IsDecimalAmount(mApi) =>
          /\ mResult.ok
          /\ mResult.value =
               DecimalString(WholeOf(mApi) \o FractionOf(mApi)
                             \o Repeat("0", MicroDecimals - Len(FractionOf(mApi))))
          /\ Len(WholeOf(mApi)) <= 4 =>
               mResult.value = BigToString(DigitsOfNat(
                 NatOf(WholeOf(mApi)) * MICRO_OCT
                 + NatOf(FractionOf(mApi)) * 10 ^ (MicroDecimals - Len(FractionOf(mApi)))))
    /\ mApi = <<"1", "0", "0", "0", ".", "5">> => mResult = Returned(<<"1", "0", "0", "0", "5", "0", "0", "0", "0", "0">>)
    /\ IsBadAmount(mApi) => ~mResult.ok

\* a whole part too long for a double and a fraction that needs padding
\* were converted
C33_Witness ==
  /\ mDone
  /\ mApi = Repeat("9", MaxWholeDigits) \o <<".", "0", "5">>
  /\ mResult = Returned(Repeat("9", MaxWholeDigits) \o <<"0", "5", "0", "0", "0", "0">>)

\* the fields signTransactionData signs
SignedFields == {"from", "to_", "amount", "nonce", "ou", "timestamp"}

\* C32: the payload handed to sendTransaction consists of exactly the signed
\* fields (from, to_, amount in microOCT as a string, nonce, fee tag,
\* timestamp) with the very values that were signed, the fee tag being "1000"
\* for an amount below 1000 and "3" otherwise, plus signature and public_key,
\* and no other field
C32_PayloadIsSignedFields ==
  (mDone /\ mResult.ok) =>
    LET payload == mResult.value
        signed == payload.signature.message
    IN  /\ DOMAIN signed = SignedFields
        /\ \A f \in SignedFields : payload[f] = signed[f]
        /\ payload.nonce = mApi.nonce /\ payload.timestamp = mApi.timestamp
        /\ payload.amount = AmountToMicroOCT(mApi.amount).value
        /\ payload.ou = (IF Len(payload.amount) < Len(DigitsOfNat(HighValue * MICRO_OCT))
                         THEN "1000" ELSE "3")
        /\ DOMAIN payload = SignedFields \cup {"signature", "public_key"}

\* C34: for any private key and any passphrase of at least 8 characters,
\* decryptPrivateKey(encryptPrivateKey(key, pass), pass) returns key, and
\* decryptPrivateKey(encryptPrivateKey(key, pass), other) with other different
\* from pass fails with the generic error and returns no plaintext
C34_RoundTripAndWrongPassphrase ==
  (mDone /\ Len(mApi.passphrase) >= MinPassphrase) =>
    /\ mResult.encrypted.ok
    /\ mResult.same = Returned(mApi.privateKey)
    /\ mApi.other # mApi.passphrase => mResult.other = Thrown
====
